---- MODULE Spec2Model ----
(***************************************************************************)
(* Conversation-context engine of the chat-to-ticket bot                   *)
(* (src/services/jira.js, lines 147-1488), the handler that drives it      *)
(* (src/unnamed/part_001) and what the handler uses of the other services: *)
(* the dedup set and the known context of memory.js, the onboarding of     *)
(* ai.js and the issue creation of github.js.                              *)
(*                                                                         *)
(* Strings are TLA+ strings; a character is a string of length one.        *)
(* JavaScript Maps are sequences of [k, v] records in insertion order.     *)
(* A value that may be null is a sequence of length zero (null) or one.    *)
(***************************************************************************)
EXTENDS Integers, Sequences, FiniteSets, TLC

----------------------------------------------------------------------------
(* Optional values: null is <<>>, a present value v is <<v>>.              *)

None == <<>>

Some(v) == <<v>>

IsSome(o) == Len(o) = 1

Val(o) == o[1]

(* a || b of JavaScript on optional values *)
OrElse(a, b) == IF IsSome(a) THEN a ELSE b

Min(a, b) == IF a < b THEN a ELSE b

Max(a, b) == IF a > b THEN a ELSE b

----------------------------------------------------------------------------
(* JavaScript Map: insertion-ordered sequence of [k |-> key, v |-> value]. *)

EmptyMap == <<>>

MapKeys(m) == { m[i].k : i \in DOMAIN m }

MapHas(m, key) == \E i \in DOMAIN m : m[i].k = key

MapIndex(m, key) == CHOOSE i \in DOMAIN m : m[i].k = key

MapGet(m, key) == m[MapIndex(m, key)].v

(* Map.prototype.set: an existing key keeps its position *)
MapSet(m, key, val) ==
    IF MapHas(m, key)
    THEN [m EXCEPT ![MapIndex(m, key)] = [k |-> key, v |-> val]]
    ELSE Append(m, [k |-> key, v |-> val])

(* Map.prototype.delete *)
MapDelete(m, key) == SelectSeq(m, LAMBDA e : e.k # key)

(* map.get(key) || dflt *)
MapGetOr(m, key, dflt) == IF MapHas(m, key) THEN MapGet(m, key) ELSE dflt

----------------------------------------------------------------------------
(* Strings and characters.                                                 *)

LowerCh == {"a","b","c","d","e","f","g","h","i","j","k","l","m",
            "n","o","p","q","r","s","t","u","v","w","x","y","z"}

UpperCh == {"A","B","C","D","E","F","G","H","I","J","K","L","M",
            "N","O","P","Q","R","S","T","U","V","W","X","Y","Z"}

DigitCh == {"0","1","2","3","4","5","6","7","8","9"}

UpperSeq == "ABCDEFGHIJKLMNOPQRSTUVWXYZ"

LowerSeq == "abcdefghijklmnopqrstuvwxyz"

Ch(s, i) == SubSeq(s, i, i)

(* String.prototype.toLowerCase on one character *)
LowerOf ==
    [c \in UpperCh |-> Ch(LowerSeq, CHOOSE i \in 1..26 : Ch(UpperSeq, i) = c)]

LowerChar(c) == IF c \in UpperCh THEN LowerOf[c] ELSE c

RECURSIVE toLowerCase(_)
toLowerCase(s) ==
    IF Len(s) = 0 THEN ""
    ELSE LowerChar(Ch(s, 1)) \o toLowerCase(SubSeq(s, 2, Len(s)))

(* String.prototype.substring(0, n) *)
Substring0(s, n) == SubSeq(s, 1, Min(n, Len(s)))

(* \w, \s, \d, . , [A-Z], [a-z] *)
InClass(cls, c) ==
    CASE cls = "w" -> c \in LowerCh \cup UpperCh \cup DigitCh \cup {"_"}
      [] cls = "s" -> c \in {" ", "\t", "\n"}
      [] cls = "d" -> c \in DigitCh
      [] cls = "dot" -> c # "\n"
      [] cls = "upper" -> c \in UpperCh
      [] cls = "lower" -> c \in LowerCh

----------------------------------------------------------------------------
(* Regular expressions, with the backtracking semantics of the JavaScript  *)
(* engine.  Match(re, s, i, caps, ci) is the sequence of all ways re can   *)
(* match s starting at index i, in the order the engine tries them, so its *)
(* head is the match the engine reports.  ci is the /i flag.               *)

Lit(str) == [t |-> "lit", s |-> str]

Cls(c) == [t |-> "cls", c |-> c]

Cat(rs) == [t |-> "cat", rs |-> rs]

Alt(rs) == [t |-> "alt", rs |-> rs]

Opt(r) == [t |-> "opt", r |-> r]

Plus(r) == [t |-> "plus", r |-> r, lazy |-> FALSE]

PlusLazy(r) == [t |-> "plus", r |-> r, lazy |-> TRUE]

Star(r) == [t |-> "star", r |-> r]

Grp(n, r) == [t |-> "grp", n |-> n, r |-> r]

Bol == [t |-> "bol"]

Eol == [t |-> "eol"]

WordB == [t |-> "wordb"]

NoCaps == <<None, None>>

IsWordAt(s, i) == i >= 1 /\ i <= Len(s) /\ InClass("w", Ch(s, i))

LitAt(str, s, i, ci) ==
    /\ i + Len(str) - 1 <= Len(s)
    /\ \A k \in 1..Len(str) :
          IF ci THEN LowerChar(Ch(s, i + k - 1)) = LowerChar(Ch(str, k))
          ELSE Ch(s, i + k - 1) = Ch(str, k)

(* the number of characters of a class that follow each other from index i *)
RunLength(cls, s, i) ==
    Cardinality({k \in i..Len(s) : \A m \in i..k : InClass(cls, Ch(s, m))})

RECURSIVE Match(_, _, _, _, _)
RECURSIVE MatchCat(_, _, _, _, _, _)
RECURSIVE MatchCatTail(_, _, _, _, _, _)
RECURSIVE MatchAlt(_, _, _, _, _, _)
RECURSIVE MatchPlus(_, _, _, _, _)
RECURSIVE MatchPlusTail(_, _, _, _, _, _)

Match(re, s, i, caps, ci) ==
    LET here == <<[e |-> i, c |-> caps]>> IN
    CASE re.t = "lit" ->
           IF LitAt(re.s, s, i, ci)
           THEN <<[e |-> i + Len(re.s), c |-> caps]>> ELSE <<>>
      [] re.t = "cls" ->
           IF i <= Len(s) /\ InClass(re.c, Ch(s, i))
           THEN <<[e |-> i + 1, c |-> caps]>> ELSE <<>>
      [] re.t = "bol" -> IF i = 1 THEN here ELSE <<>>
      [] re.t = "eol" -> IF i = Len(s) + 1 THEN here ELSE <<>>
      [] re.t = "wordb" ->
           IF IsWordAt(s, i - 1) # IsWordAt(s, i) THEN here ELSE <<>>
      [] re.t = "cat" -> MatchCat(re.rs, 1, s, i, caps, ci)
      [] re.t = "alt" -> MatchAlt(re.rs, 1, s, i, caps, ci)
      [] re.t = "opt" -> Match(re.r, s, i, caps, ci) \o here
      [] re.t = "plus" -> MatchPlus(re, s, i, caps, ci)
      [] re.t = "star" -> MatchPlus(Plus(re.r), s, i, caps, ci) \o here
      [] re.t = "grp" ->
           LET Captured(xs) ==
                 [j \in DOMAIN xs |->
                    [e |-> xs[j].e,
                     c |-> [xs[j].c EXCEPT ![re.n] = Some(SubSeq(s, i, xs[j].e - 1))]]]
           IN Captured(Match(re.r, s, i, caps, ci))

MatchCat(rs, k, s, i, caps, ci) ==
    IF k > Len(rs) THEN <<[e |-> i, c |-> caps]>>
    ELSE MatchCatTail(rs, k, s, Match(rs[k], s, i, caps, ci), 1, ci)

MatchCatTail(rs, k, s, xs, j, ci) ==
    IF j > Len(xs) THEN <<>>
    ELSE MatchCat(rs, k + 1, s, xs[j].e, xs[j].c, ci)
           \o MatchCatTail(rs, k, s, xs, j + 1, ci)

MatchAlt(rs, k, s, i, caps, ci) ==
    IF k > Len(rs) THEN <<>>
    ELSE Match(rs[k], s, i, caps, ci) \o MatchAlt(rs, k + 1, s, i, caps, ci)

MatchPlus(re, s, i, caps, ci) ==
    IF re.r.t = "cls"
    THEN LET Ends(n) ==
                 [k \in 1..n |->
                    [e |-> i + (IF re.lazy THEN k ELSE n + 1 - k), c |-> caps]]
         IN Ends(RunLength(re.r.c, s, i))
    ELSE MatchPlusTail(re, s, i, Match(re.r, s, i, caps, ci), 1, ci)

MatchPlusTail(re, s, i, xs, j, ci) ==
    IF j > Len(xs) THEN <<>>
    ELSE LET Ordered(x, more) == IF re.lazy THEN <<x>> \o more ELSE more \o <<x>>
         IN Ordered(xs[j], IF xs[j].e > i
                           THEN MatchPlus(re, s, xs[j].e, xs[j].c, ci) ELSE <<>>)
              \o MatchPlusTail(re, s, i, xs, j + 1, ci)

(* RegExp.prototype.exec from index i: the leftmost match, or null *)
RECURSIVE Exec(_, _, _, _)
Exec(re, s, i, ci) ==
    IF i > Len(s) + 1 THEN None
    ELSE LET Found(xs) ==
                 IF Len(xs) > 0
                 THEN Some([start |-> i, end |-> xs[1].e, caps |-> xs[1].c,
                            raw |-> SubSeq(s, i, xs[1].e - 1)])
                 ELSE Exec(re, s, i + 1, ci)
         IN Found(Match(re, s, i, NoCaps, ci))

(* String.prototype.match without /g *)
StrMatch(re, s, ci) == Exec(re, s, 1, ci)

(* RegExp.prototype.test *)
Test(re, s, ci) == IsSome(Exec(re, s, 1, ci))

(* every match of a /g expression, left to right *)
RECURSIVE MatchAll(_, _, _, _)
MatchAll(re, s, i, ci) ==
    LET Rest(m) ==
          IF ~IsSome(m) THEN <<>>
          ELSE <<Val(m)>> \o MatchAll(re, s,
                                      IF Val(m).end = Val(m).start
                                      THEN Val(m).end + 1 ELSE Val(m).end, ci)
    IN Rest(Exec(re, s, i, ci))

(* one of several literal words, tried in the order written *)
Words(ws) == Alt([j \in DOMAIN ws |-> Lit(ws[j])])

----------------------------------------------------------------------------
(* Program constants.                                                      *)

(* Thread.addMessage: 30 * 60 * 1000 ms *)
ThreadIdleMs == 1800000

(* analyzeTemporalPatterns: 1000 * 60 * 60 ms in an hour, alert after 24 h *)
HourMs == 3600000

StaleHours == 24

(* EntityMap.pushToFocusStack *)
FocusStackCap == 10

(* EntityMap.getCurrentFocus *)
CurrentFocusLen == 3

(* EntityMap.addTask: title.toLowerCase().substring(0, 50) *)
TaskNameLen == 50

(* recordConfidence *)
ConfidenceTrailCap == 1000

(* scoreAndCacheMessage *)
AttentionCacheCap == 100

----------------------------------------------------------------------------
(* The message texts the engine is driven with.  What the pattern matching *)
(* of the engine yields for a text is tabulated once over these texts      *)
(* (the ...Of definitions below); every table is the function it names.    *)

Contents == {"fix login", "let's use redis", "so what"}

(* messages that state a decision: the example of extractDecision, and a   *)
(* message in which a later pattern matches further left than the first    *)
DecisionContents ==
    { "Let's go with plan B because it's faster",
      "picked redis, we should ship" }

(* a message that refers to what it names itself and sets a deadline, and  *)
(* the empty message                                                       *)
PipelineContents == {"fix it by friday", ""}

(* messages whose rule points sum to -30, 15, 40, 55, 70 and 120 *)
ScoreContents == {"lol", "urgent fix", "urgent bug", "urgent bug fix",
                  "@bob must fix urgent bug for customer"}

(* a message that hedges, one that is urgent and a question, one that is   *)
(* all three                                                               *)
LearnContents == {"maybe", "asap?", "maybe asap?"}

(* a message that names a person, a task and a feature *)
EngineContents == {"fix Login Page"}

(* the example of extractTimeContext, a message that matches two relative  *)
(* patterns, and one that matches three deadline patterns and a duration   *)
TimeContents == { "yesterday we started this", "2 days ago, not yesterday",
                  "due by friday for 3 days" }

Texts == Contents \cup DecisionContents \cup PipelineContents \cup ScoreContents
           \cup LearnContents \cup EngineContents \cup TimeContents
           \cup {"[object Object]", "ShopApp with @bob, project 3"}

----------------------------------------------------------------------------
(* 1. Threads.                                                             *)

WS == Plus(Cls("s"))

Word == Plus(Cls("w"))

(* detectTopicChange: newTopicIndicators *)
newTopicIndicators ==
    << Cat(<<Bol, Words(<<"hey", "hi", "so", "ok", "anyway", "btw", "moving on">>)>>),
       Cat(<<Bol, Words(<<"new topic", "different question", "one more thing">>)>>),
       Cat(<<Bol, Words(<<"also", "additionally", "another thing">>)>>) >>

(* detectTopicChange: the topic pattern *)
topicPattern ==
    Cat(<< Opt(Cat(<<Lit("the"), WS>>)),
           Grp(1, Cat(<<Word, Opt(Cat(<<WS, Word>>))>>)),
           Cat(<<WS, Words(<<"issue", "bug", "feature", "task", "problem">>)>>) >>)

detectTopicChange(content) ==
    LET Topic(topicMatch) ==
            IF IsSome(topicMatch) THEN Val(topicMatch).caps[1] ELSE None
    IN [ isNewTopic |-> \E j \in DOMAIN newTopicIndicators :
                           Test(newTopicIndicators[j], content, TRUE),
         topic |-> Topic(StrMatch(topicPattern, content, TRUE)) ]

topicChangeOf == [text \in Texts |-> detectTopicChange(text)]

(* new Thread(id, channelId, topic) at time t *)
NewThread(id, channelId, topic, t) ==
    [ id |-> id, channelId |-> channelId, topic |-> topic,
      messages |-> <<>>, entities |-> {},
      taskCreated |-> FALSE, taskId |-> None,
      startedAt |-> t, lastActivityAt |-> t, isActive |-> TRUE ]

(* a thread that takes the time of a message but not the message *)
ThreadDropMessage(th, messageId, content, username, timestamp, t) ==
    [th EXCEPT !.lastActivityAt = timestamp]

(* Thread.addMessage at time t (the value of Date.now()) *)
ThreadAddMessage(th, messageId, content, username, timestamp, t) ==
    LET Checked(th1) ==
            IF th1.isActive /\ t - th1.lastActivityAt > ThreadIdleMs
            THEN [th1 EXCEPT !.isActive = FALSE]
            ELSE th1
    IN Checked([th EXCEPT
                  !.messages = Append(@, [ id |-> messageId, content |-> content,
                                           username |-> username,
                                           timestamp |-> timestamp,
                                           attentionScore |-> None ]),
                  !.lastActivityAt = timestamp])

(* Thread.linkTask *)
ThreadLinkTask(th, taskId) ==
    [th EXCEPT !.taskCreated = TRUE, !.taskId = Some(taskId)]

(* Array.prototype.find(t => t.isActive), as an index: 0 when none *)
FindActive(channelThreads) ==
    IF \E i \in DOMAIN channelThreads : channelThreads[i].isActive
    THEN CHOOSE i \in DOMAIN channelThreads :
            /\ channelThreads[i].isActive
            /\ \A j \in 1..(i - 1) : ~channelThreads[j].isActive
    ELSE 0

(* a lookup that opens a thread only when none is active *)
getOrCreateIgnoringTopic(ths, channelId, content, t) ==
    LET Found(channelThreads, active, topicChange) ==
            IF active = 0
            THEN [ threads |-> MapSet(ths, channelId,
                                 Append(channelThreads,
                                        NewThread(<<channelId, t>>, channelId,
                                                  topicChange.topic, t))),
                   idx |-> Len(channelThreads) + 1 ]
            ELSE [ threads |-> ths, idx |-> active ]
    IN Found(MapGetOr(ths, channelId, <<>>),
             FindActive(MapGetOr(ths, channelId, <<>>)),
             topicChangeOf[content])

(* getOrCreateThread: the thread store afterwards and the index of the     *)
(* thread it returns                                                       *)
getOrCreateThread(ths, channelId, content, t) ==
    LET Found(channelThreads, active, topicChange) ==
            IF active = 0 \/ topicChange.isNewTopic
            THEN [ threads |-> MapSet(ths, channelId,
                                 Append(channelThreads,
                                        NewThread(<<channelId, t>>, channelId,
                                                  topicChange.topic, t))),
                   idx |-> Len(channelThreads) + 1 ]
            ELSE [ threads |-> ths, idx |-> active ]
    IN Found(MapGetOr(ths, channelId, <<>>),
             FindActive(MapGetOr(ths, channelId, <<>>)),
             topicChangeOf[content])

(* getActiveThread: the thread or null *)
getActiveThread(ths, channelId) ==
    LET Found(channelThreads, active) ==
            IF active = 0 THEN None ELSE Some(channelThreads[active])
    IN Found(MapGetOr(ths, channelId, <<>>),
             FindActive(MapGetOr(ths, channelId, <<>>)))

(* getThreadByTaskId: where the first thread carrying taskId is, or null.  *)
(* taskId is an optional value: null finds a thread whose taskId is null.  *)
getThreadByTaskId(ths, taskId) ==
    LET hit(c) == \E i \in DOMAIN ths[c].v : ths[c].v[i].taskId = taskId
        In(first) ==
            Some([ ch |-> ths[first].k,
                   idx |-> CHOOSE i \in DOMAIN ths[first].v :
                             /\ ths[first].v[i].taskId = taskId
                             /\ \A j \in 1..(i - 1) : ths[first].v[j].taskId # taskId ])
    IN IF \E c \in DOMAIN ths : hit(c)
       THEN In(CHOOSE c \in DOMAIN ths : hit(c) /\ \A d \in 1..(c - 1) : ~hit(d))
       ELSE None

----------------------------------------------------------------------------
(* 2. Entities.                                                            *)

(* String.prototype.replace(c, '') with a one-character string c *)
RECURSIVE RemoveFirst(_, _)
RemoveFirst(s, c) ==
    IF Len(s) = 0 THEN ""
    ELSE IF Ch(s, 1) = c THEN SubSeq(s, 2, Len(s))
    ELSE Ch(s, 1) \o RemoveFirst(SubSeq(s, 2, Len(s)), c)

(* String.prototype.replace(/[c]/g, '') *)
RECURSIVE RemoveAll(_, _)
RemoveAll(s, c) ==
    IF Len(s) = 0 THEN ""
    ELSE (IF Ch(s, 1) = c THEN "" ELSE Ch(s, 1))
           \o RemoveAll(SubSeq(s, 2, Len(s)), c)

mentionPattern == Cat(<<Opt(Lit("@")), Grp(1, Word)>>)

taskPatterns ==
    << Cat(<< Words(<<"fix", "fixing", "fixes">>), WS, Opt(Cat(<<Lit("the"), WS>>)),
              Grp(1, Cat(<<Word, Opt(Cat(<<WS, Word>>))>>)) >>),
       Cat(<< Words(<<"implement", "implementing">>), WS, Opt(Cat(<<Lit("the"), WS>>)),
              Grp(1, Cat(<<Word, Opt(Cat(<<WS, Word>>))>>)) >>),
       Cat(<< Words(<<"bug", "issue">>), WS,
              Opt(Alt(<<Cat(<<Lit("with"), WS>>), Cat(<<Lit("in"), WS>>)>>)),
              Grp(1, Cat(<<Word, Opt(Cat(<<WS, Word>>))>>)) >>) >>

featurePattern ==
    Cat(<< Cls("upper"), Plus(Cls("lower")),
           Plus(Cat(<<WS, Cls("upper"), Plus(Cls("lower"))>>)) >>)

RECURSIVE FlattenSeqs(_)
FlattenSeqs(ss) ==
    IF Len(ss) = 0 THEN <<>> ELSE Head(ss) \o FlattenSeqs(Tail(ss))

extractEntities(content) ==
    LET mentions(mentionMatches) ==
            [j \in DOMAIN mentionMatches |-> RemoveFirst(mentionMatches[j].raw, "@")]
        captured(ms) == [j \in DOMAIN ms |-> Val(ms[j].caps[1])]
        raws(featureMatches) ==
            [j \in DOMAIN featureMatches |-> featureMatches[j].raw]
    IN [ people |-> SelectSeq(mentions(MatchAll(mentionPattern, content, 1, FALSE)),
                              LAMBDA m : Len(m) > 2),
         tasks |-> FlattenSeqs([j \in DOMAIN taskPatterns |->
                                  captured(MatchAll(taskPatterns[j], content, 1, TRUE))]),
         features |-> raws(MatchAll(featurePattern, content, 1, FALSE)),
         concepts |-> <<>> ]

entitiesOf == [text \in Texts |-> extractEntities(text)]

(* new EntityMap(channelId) at time t *)
NewEntityMap(channelId, t) ==
    [ channelId |-> channelId, people |-> EmptyMap, tasks |-> EmptyMap,
      features |-> EmptyMap, concepts |-> EmptyMap, focusStack |-> <<>>,
      lastUpdated |-> t ]

(* a push that keeps the entries beyond the tenth *)
pushUncapped(focusStack, entity, t) ==
    <<[entity EXCEPT !.timestamp = t]>>
      \o SelectSeq(focusStack,
                   LAMBDA e : ~(e.type = entity.type /\ e.name = entity.name))

(* a push that leaves an earlier entry of the entity on the stack *)
pushKeepingEarlier(focusStack, entity, t) ==
    LET Kept(unshifted) ==
            IF Len(unshifted) > FocusStackCap
            THEN SubSeq(unshifted, 1, FocusStackCap)
            ELSE unshifted
    IN Kept(<<[entity EXCEPT !.timestamp = t]>> \o focusStack)

(* EntityMap.pushToFocusStack at time t *)
pushToFocusStack(focusStack, entity, t) ==
    LET Kept(unshifted) ==
            IF Len(unshifted) > FocusStackCap
            THEN SubSeq(unshifted, 1, FocusStackCap)
            ELSE unshifted
    IN Kept(<<[entity EXCEPT !.timestamp = t]>>
              \o SelectSeq(focusStack,
                           LAMBDA e : ~(e.type = entity.type /\ e.name = entity.name)))

FocusEntry(type, name, title) ==
    [type |-> type, name |-> name, title |-> title, timestamp |-> 0]

(* an addPerson that counts every mention as the first *)
addPersonOnce(em, name, githubUsername, t) ==
    LET Added(normalized) ==
            [em EXCEPT
               !.people = MapSet(@, normalized,
                                 [ mentions |-> 1, lastMention |-> Some(t),
                                   github |-> githubUsername ]),
               !.focusStack = pushToFocusStack(@, FocusEntry("person", normalized, None), t)]
    IN Added(RemoveAll(toLowerCase(name), "@"))

(* EntityMap.addPerson(name, githubUsername) *)
addPerson(em, name, githubUsername, t) ==
    LET Counted(existing) ==
            [ mentions |-> existing.mentions + 1,
              lastMention |-> Some(t),
              github |-> OrElse(githubUsername, existing.github) ]
        Added(normalized) ==
            [em EXCEPT
               !.people = MapSet(@, normalized,
                                 Counted(MapGetOr(em.people, normalized,
                                                  [ mentions |-> 0,
                                                    lastMention |-> None,
                                                    github |-> None ]))),
               !.focusStack = pushToFocusStack(@, FocusEntry("person", normalized, None),
                                               t)]
    IN Added(RemoveAll(toLowerCase(name), "@"))

(* EntityMap.addTask(title, taskId, status) *)
addTask(em, title, taskId, status, t) ==
    LET Counted(existing) ==
            [ mentions |-> existing.mentions + 1,
              taskId |-> OrElse(taskId, existing.taskId),
              status |-> status ]
        Added(normalized) ==
            [em EXCEPT
               !.tasks = MapSet(@, normalized,
                                Counted(MapGetOr(em.tasks, normalized,
                                                 [ mentions |-> 0, taskId |-> None,
                                                   status |-> None ]))),
               !.focusStack = pushToFocusStack(@, FocusEntry("task", normalized,
                                                             Some(title)), t)]
    IN Added(Substring0(toLowerCase(title), TaskNameLen))

(* EntityMap.addFeature(name) *)
addFeature(em, name, t) ==
    LET Counted(existing) ==
            [ mentions |-> existing.mentions + 1,
              relatedTasks |-> existing.relatedTasks ]
    IN [em EXCEPT
          !.features = MapSet(@, name,
                              Counted(MapGetOr(em.features, name,
                                               [mentions |-> 0, relatedTasks |-> <<>>]))),
          !.focusStack = pushToFocusStack(@, FocusEntry("feature", name, None), t)]

(* getEntityMap: the store after the lookup, which creates a missing map *)
getEntityMap(ems, channelId, t) ==
    IF MapHas(ems, channelId) THEN ems
    ELSE MapSet(ems, channelId, NewEntityMap(channelId, t))

(* EntityMap.getCurrentFocus *)
getCurrentFocus(em) == SubSeq(em.focusStack, 1, Min(CurrentFocusLen, Len(em.focusStack)))

(* EntityMap.resolveReference: pronounMap[lowerRef], null for other words *)
pronounMap(lowerRef) ==
    CASE lowerRef \in {"he", "she", "they"} -> Some("person")
      [] lowerRef \in {"it", "that", "this"} -> Some("task_or_feature")
      [] lowerRef \in {"the issue", "the bug", "the task"} -> Some("task")
      [] lowerRef = "the feature" -> Some("feature")
      [] OTHER -> None

(* a lookup that returns the entry of the asked kind pushed longest ago *)
resolveOldest(em, reference) ==
    LET Resolved(type) ==
            LET ok(e) ==
                    CASE Val(type) = "person" -> e.type = "person"
                      [] Val(type) = "task_or_feature" -> e.type \in {"task", "feature"}
                      [] Val(type) = "task" -> e.type = "task"
                      [] Val(type) = "feature" -> e.type = "feature"
                Oldest(hits) == IF Len(hits) > 0 THEN Some(hits[Len(hits)]) ELSE None
            IN Oldest(IF IsSome(type) THEN SelectSeq(em.focusStack, ok) ELSE <<>>)
    IN Resolved(pronounMap(toLowerCase(reference)))

resolveReference(em, reference) ==
    LET Resolved(type) ==
            LET ok(e) ==
                    CASE Val(type) = "person" -> e.type = "person"
                      [] Val(type) = "task_or_feature" -> e.type \in {"task", "feature"}
                      [] Val(type) = "task" -> e.type = "task"
                      [] Val(type) = "feature" -> e.type = "feature"
                First(hits) == IF Len(hits) > 0 THEN Some(Head(hits)) ELSE None
            IN First(IF IsSome(type) THEN SelectSeq(em.focusStack, ok) ELSE <<>>)
    IN Resolved(pronounMap(toLowerCase(reference)))

pronouns == <<"he", "she", "they", "it", "that", "this">>

(* resolvePronouns: new RegExp(`\\b${pronoun}\\b`, 'gi').test(content) *)
MentionsPronoun(content, j) ==
    Test(Cat(<<WordB, Lit(pronouns[j]), WordB>>), content, TRUE)

mentionsPronounOf ==
    [text \in Texts |-> [j \in DOMAIN pronouns |-> MentionsPronoun(text, j)]]

(* resolvePronouns: the Map pronoun -> focus entry of those that resolve *)
RECURSIVE resolvePronounsFrom(_, _, _)
resolvePronounsFrom(em, content, j) ==
    IF j > Len(pronouns) THEN EmptyMap
    ELSE LET Entry(ref) ==
                 IF IsSome(ref) THEN <<[k |-> pronouns[j], v |-> Val(ref)]>> ELSE <<>>
         IN Entry(IF mentionsPronounOf[content][j]
                  THEN resolveReference(em, pronouns[j]) ELSE None)
              \o resolvePronounsFrom(em, content, j + 1)

resolvePronouns(em, content) == resolvePronounsFrom(em, content, 1)

----------------------------------------------------------------------------
(* 3. Decisions.                                                           *)

(* String.prototype.trim *)
RECURSIVE Trim(_)
Trim(s) ==
    IF Len(s) = 0 THEN ""
    ELSE IF InClass("s", Ch(s, 1)) THEN Trim(SubSeq(s, 2, Len(s)))
    ELSE IF InClass("s", Ch(s, Len(s))) THEN Trim(SubSeq(s, 1, Len(s) - 1))
    ELSE s

decisionPatterns ==
    << Cat(<< Words(<<"let's", "we should", "we'll", "we will",
                      "I think we should", "decided to">>),
              WS, Grp(1, Plus(Cls("dot"))) >>),
       Cat(<< Words(<<"going with", "choosing", "selected", "picked">>),
              WS, Grp(1, PlusLazy(Cls("dot"))),
              Alt(<< Cat(<<WS, Lit("because")>>), Cat(<<WS, Lit("over")>>),
                     Cat(<<Star(Cls("s")), Lit(",")>>),
                     Cat(<<Star(Cls("s")), Eol>>) >>) >>),
       Cat(<< Words(<<"the plan is", "plan is to">>),
              WS, Grp(1, Plus(Cls("dot"))) >>) >>

clauseEnd == Alt(<<Lit("."), Lit(","), Eol>>)

whyPattern == Cat(<<Lit("because"), WS, Grp(1, PlusLazy(Cls("dot"))), clauseEnd>>)

altPattern == Cat(<<Lit("instead of"), WS, Grp(1, PlusLazy(Cls("dot"))), clauseEnd>>)

(* the index of the last decision pattern that matches, 0 when none does *)
LastDecisionPattern(content) ==
    LET Last(hit) ==
            IF \E j \in DOMAIN hit : hit[j]
            THEN CHOOSE j \in DOMAIN hit : hit[j] /\ \A k \in (j + 1)..Len(hit) : ~hit[k]
            ELSE 0
    IN Last([j \in DOMAIN decisionPatterns |->
               Test(decisionPatterns[j], content, TRUE)])

(* index of the first decision pattern that matches, 0 when none does *)
FirstDecisionPattern(content) ==
    LET First(hit) ==
            IF \E j \in DOMAIN hit : hit[j]
            THEN CHOOSE j \in DOMAIN hit : hit[j] /\ \A k \in 1..(j - 1) : ~hit[k]
            ELSE 0
    IN First([j \in DOMAIN decisionPatterns |->
                Test(decisionPatterns[j], content, TRUE)])

(* extractDecision: what, why and alternatives of the first pattern that   *)
(* matches, or null                                                        *)
DecisionText(content) ==
    LET Text(j, whyMatch, altMatch) ==
            IF j = 0 THEN None
            ELSE Some([ pattern |-> j,
                        what |-> Trim(Val(Val(StrMatch(decisionPatterns[j], content,
                                                       TRUE)).caps[1])),
                        why |-> IF IsSome(whyMatch)
                                THEN Some(Trim(Val(Val(whyMatch).caps[1]))) ELSE None,
                        alternatives |-> IF IsSome(altMatch)
                                         THEN <<Trim(Val(Val(altMatch).caps[1]))>>
                                         ELSE <<>> ])
    IN Text(FirstDecisionPattern(content),
            StrMatch(whyPattern, content, TRUE),
            StrMatch(altPattern, content, TRUE))

decisionTextOf == [text \in Texts |-> DecisionText(text)]

(* extractDecision: the Decision it builds, or null; ths is the thread     *)
(* store at the time of the call                                           *)
extractDecision(ths, content, username, channelId, t) ==
    LET Built(found, active) ==
            IF ~IsSome(found) THEN None
            ELSE Some([ id |-> <<channelId, "decision", t>>,
                        channelId |-> channelId,
                        threadId |-> IF IsSome(active) THEN Some(Val(active).id)
                                     ELSE None,
                        what |-> Val(found).what,
                        why |-> Val(found).why,
                        who |-> username,
                        when |-> t,
                        alternatives |-> Val(found).alternatives,
                        relatedTaskId |-> None,
                        confidence |-> None ])
    IN Built(decisionTextOf[content], getActiveThread(ths, channelId))

(* recordDecision *)
recordDecision(ds, channelId, decision) ==
    MapSet(ds, channelId, Append(MapGetOr(ds, channelId, <<>>), decision))

----------------------------------------------------------------------------
(* 8. Attention scoring.                                                   *)

highValuePatterns ==
    << [ pattern |-> Words(<<"bug", "issue", "broken", "crash", "error", "fail">>),
         ci |-> TRUE, points |-> 30, reason |-> "Bug/issue mention" ],
       [ pattern |-> Words(<<"urgent", "asap", "critical", "blocking", "production">>),
         ci |-> TRUE, points |-> 25, reason |-> "Urgency indicator" ],
       [ pattern |-> Alt(<< Cat(<<Lit("need"), WS, Lit("to")>>),
                            Cat(<<Lit("have"), WS, Lit("to")>>),
                            Lit("must"), Lit("should"), Lit("todo") >>),
         ci |-> TRUE, points |-> 20, reason |-> "Task language" ],
       [ pattern |-> Cat(<<Lit("@"), Grp(1, Word)>>),
         ci |-> FALSE, points |-> 15, reason |-> "Direct mention" ],
       [ pattern |-> Words(<<"implement", "build", "create", "fix", "add">>),
         ci |-> TRUE, points |-> 15, reason |-> "Action verb" ],
       [ pattern |-> Alt(<< Lit("deadline"), Cat(<<Lit("by"), WS, Word>>),
                            Cat(<<Lit("before"), WS, Word>>) >>),
         ci |-> TRUE, points |-> 10, reason |-> "Time constraint" ],
       [ pattern |-> Words(<<"customer", "user", "client", "revenue">>),
         ci |-> TRUE, points |-> 15, reason |-> "Business impact" ] >>

lowValuePatterns ==
    << [ pattern |-> Cat(<<Bol, Words(<<"ok", "okay", "cool", "nice", "got it",
                                        "thanks", "ty", "lol", "ha">>)>>),
         ci |-> TRUE, points |-> 0 - 20, reason |-> "Low-info response" ],
       [ pattern |-> Cat(<<Bol, Words(<<"hey", "hi", "hello", "yo", "sup">>)>>),
         ci |-> TRUE, points |-> 0 - 15, reason |-> "Greeting" ],
       [ pattern |-> Cat(<<Bol, Star(Cls("s")), Eol>>),
         ci |-> FALSE, points |-> 0 - 30, reason |-> "Empty message" ],
       [ pattern |-> Words(<<"lol", "lmao", "haha", "hehe">>),
         ci |-> TRUE, points |-> 0 - 10, reason |-> "Casual response" ] >>

(* the reasons pushed by one forEach over a rule list *)
MatchedReasons(rules, content, type) ==
    LET Reasons(hit) ==
            [j \in DOMAIN hit |->
               [reason |-> hit[j].reason, points |-> hit[j].points, type |-> type]]
    IN Reasons(SelectSeq(rules, LAMBDA r : Test(r.pattern, content, r.ci)))

RECURSIVE SumPoints(_)
SumPoints(rs) == IF Len(rs) = 0 THEN 0 ELSE Head(rs).points + SumPoints(Tail(rs))

(* calculateAttentionScore: the reasons of the two pattern lists *)
PatternReasons(content) ==
    MatchedReasons(highValuePatterns, content, "positive")
      \o MatchedReasons(lowValuePatterns, content, "negative")

patternReasonsOf == [text \in Texts |-> PatternReasons(text)]

(* a score that is the sum of the points as it is *)
calculateAttentionUnclamped(content, inReplyTo, previousMentionedSameTopic) ==
    LET Result(matchedReasons, score) ==
            [ score |-> score,
              level |-> IF score >= 70 THEN "high"
                        ELSE IF score >= 40 THEN "medium" ELSE "low",
              reasons |-> matchedReasons ]
        Scored(matchedReasons) == Result(matchedReasons, SumPoints(matchedReasons))
    IN Scored(patternReasonsOf[content]
                \o (IF inReplyTo
                    THEN <<[reason |-> "Reply message", points |-> 5,
                            type |-> "context"]>>
                    ELSE <<>>)
                \o (IF previousMentionedSameTopic
                    THEN <<[reason |-> "Continuing topic", points |-> 10,
                            type |-> "context"]>>
                    ELSE <<>>))

(* calculateAttentionScore, given the text its patterns are tested on *)
calculateAttentionScore(content, inReplyTo, previousMentionedSameTopic) ==
    LET Result(matchedReasons, score) ==
            [ score |-> score,
              level |-> IF score >= 70 THEN "high"
                        ELSE IF score >= 40 THEN "medium" ELSE "low",
              reasons |-> matchedReasons ]
        Scored(matchedReasons) ==
            Result(matchedReasons, Max(0, Min(100, SumPoints(matchedReasons))))
    IN Scored(patternReasonsOf[content]
                \o (IF inReplyTo
                    THEN <<[reason |-> "Reply message", points |-> 5,
                            type |-> "context"]>>
                    ELSE <<>>)
                \o (IF previousMentionedSameTopic
                    THEN <<[reason |-> "Continuing topic", points |-> 10,
                            type |-> "context"]>>
                    ELSE <<>>))

(* `message.content || message` for a message object: an empty content is  *)
(* falsy, so the object itself is tested and converts to "[object Object]" *)
ScoredText(message) ==
    IF message.content # "" THEN message.content ELSE "[object Object]"

(* scoreAndCacheMessage: the scored message it builds *)
ScoredMessage(message) ==
    [ content |-> message.content, username |-> message.username,
      timestamp |-> message.timestamp,
      attention |-> calculateAttentionScore(ScoredText(message), FALSE, FALSE) ]

(* a cache that is cut only once it holds more than 101 messages *)
scoreAndCacheLate(ac, channelId, message) ==
    LET Kept(pushed) ==
            IF Len(pushed) > AttentionCacheCap + 1 THEN Tail(pushed) ELSE pushed
    IN MapSet(ac, channelId,
              Kept(Append(MapGetOr(ac, channelId, <<>>), ScoredMessage(message))))

(* a cache shared by the channels: the scored message also goes to the     *)
(* cache of every other channel that has one                               *)
scoreAndCacheEverywhere(ac, channelId, message) ==
    LET Kept(pushed) ==
            IF Len(pushed) > AttentionCacheCap THEN Tail(pushed) ELSE pushed
        Shared(own) ==
            [j \in DOMAIN own |->
                IF own[j].k = channelId THEN own[j]
                ELSE [own[j] EXCEPT !.v = Kept(Append(@, ScoredMessage(message)))]]
    IN Shared(MapSet(ac, channelId,
                     Kept(Append(MapGetOr(ac, channelId, <<>>),
                                 ScoredMessage(message)))))

(* scoreAndCacheMessage: the cache of the channel afterwards *)
scoreAndCacheMessage(ac, channelId, message) ==
    LET Kept(pushed) ==
            IF Len(pushed) > AttentionCacheCap THEN Tail(pushed) ELSE pushed
    IN MapSet(ac, channelId,
              Kept(Append(MapGetOr(ac, channelId, <<>>), ScoredMessage(message))))

(* String.prototype.includes *)
Includes(s, sub) == Test(Lit(sub), s, FALSE)

(* processMessage: content.includes('>') *)
inReplyToOf == [text \in Texts |-> Includes(text, ">")]

----------------------------------------------------------------------------
(* 5. Task origins.                                                        *)

(* new TaskOrigin(taskId, channelId, threadId) followed by one addMessage  *)
(* per supplied message; `m.timestamp || Date.now()` replaces a zero       *)
NewTaskOrigin(taskId, channelId, threadId, messages, t) ==
    [ taskId |-> taskId, channelId |-> channelId, threadId |-> threadId,
      messages |-> [j \in DOMAIN messages |->
                      [ content |-> messages[j].content,
                        username |-> messages[j].username,
                        timestamp |-> IF messages[j].timestamp # 0
                                      THEN messages[j].timestamp ELSE t ]],
      entities |-> <<>>, decision |-> None,
      createdAt |-> t, updatedAt |-> t ]

(* a store that keeps the origin a task id already has *)
StoreOriginKeepFirst(origins, taskId, origin) ==
    IF MapHas(origins, taskId) THEN origins ELSE MapSet(origins, taskId, origin)

(* linkTaskToOrigin: taskOrigins.set(taskId, origin) *)
StoreOrigin(origins, taskId, origin) == MapSet(origins, taskId, origin)

(* linkTaskToOrigin: the thread it links, as [ch, idx], or null *)
LinkedThread(ths, taskId, channelId) ==
    LET Found(byTask, active) ==
            IF IsSome(byTask) THEN byTask
            ELSE IF active # 0 THEN Some([ch |-> channelId, idx |-> active])
            ELSE None
    IN Found(getThreadByTaskId(ths, Some(taskId)),
             FindActive(MapGetOr(ths, channelId, <<>>)))

(* linkTaskToOrigin: the thread store afterwards *)
LinkThreads(ths, taskId, channelId) ==
    LET Linked(target) ==
            IF IsSome(target)
            THEN MapSet(ths, Val(target).ch,
                        [MapGet(ths, Val(target).ch) EXCEPT
                           ![Val(target).idx] = ThreadLinkTask(@, taskId)])
            ELSE ths
    IN Linked(LinkedThread(ths, taskId, channelId))

(* TaskOrigin.getSummary().decision *)
OriginSummaryDecision(origin) ==
    IF IsSome(origin.decision)
    THEN Some([ what |-> Val(origin.decision).what,
                why |-> Val(origin.decision).why,
                who |-> Val(origin.decision).who ])
    ELSE None

----------------------------------------------------------------------------
(* 6. Cross-channel project memory.                                        *)

NewProjectMemory(projectName, t) ==
    [ projectName |-> projectName, channels |-> EmptyMap,
      sharedEntities |-> EmptyMap, activeTasks |-> EmptyMap, lastSynced |-> t ]

(* a registration that adds an entry for the channel whether or not the    *)
(* project has one                                                         *)
registerChannelAgain(pm, channelId, t) ==
    [pm EXCEPT !.channels =
        Append(@, [k |-> channelId,
                   v |-> [name |-> channelId, purpose |-> None, registeredAt |-> t]])]

(* ProjectMemory.registerChannel(channelId) *)
registerChannel(pm, channelId, t) ==
    [pm EXCEPT !.channels = MapSet(@, channelId,
                              [name |-> channelId, purpose |-> None, registeredAt |-> t])]

(* a shared entity whose counter counts the channels that mention it *)
addCrossChannelEntityPerChannel(pm, entity, channelId) ==
    LET Counted(existing) ==
            [ channels |-> existing.channels \cup {channelId},
              mentions |-> IF channelId \in existing.channels
                           THEN existing.mentions ELSE existing.mentions + 1 ]
    IN [pm EXCEPT !.sharedEntities =
           MapSet(@, entity,
                  Counted(MapGetOr(pm.sharedEntities, entity,
                                   [channels |-> {}, mentions |-> 0])))]

(* ProjectMemory.addCrossChannelEntity *)
addCrossChannelEntity(pm, entity, channelId) ==
    LET Counted(existing) ==
            [ channels |-> existing.channels \cup {channelId},
              mentions |-> existing.mentions + 1 ]
    IN [pm EXCEPT !.sharedEntities =
           MapSet(@, entity,
                  Counted(MapGetOr(pm.sharedEntities, entity,
                                   [channels |-> {}, mentions |-> 0])))]

(* ProjectMemory.addTask *)
projectAddTask(pm, taskId, channelId, status, t) ==
    [pm EXCEPT !.activeTasks =
        MapSet(@, taskId, [channelId |-> channelId, status |-> status, addedAt |-> t])]

RECURSIVE SyncPeople(_, _, _, _)
SyncPeople(pm, people, j, channelId) ==
    IF j > Len(people) THEN pm
    ELSE SyncPeople(addCrossChannelEntity(pm, "person:" \o people[j].k, channelId),
                    people, j + 1, channelId)

RECURSIVE SyncTasks(_, _, _, _, _)
SyncTasks(pm, tasks, j, channelId, t) ==
    IF j > Len(tasks) THEN pm
    ELSE LET Tracked(pm1) ==
                 IF IsSome(tasks[j].v.taskId)
                 THEN projectAddTask(pm1, Val(tasks[j].v.taskId), channelId,
                                     tasks[j].v.status, t)
                 ELSE pm1
         IN SyncTasks(Tracked(addCrossChannelEntity(pm, "task:" \o tasks[j].k,
                                                    channelId)),
                      tasks, j + 1, channelId, t)

RECURSIVE SyncFeatures(_, _, _, _)
SyncFeatures(pm, features, j, channelId) ==
    IF j > Len(features) THEN pm
    ELSE SyncFeatures(addCrossChannelEntity(pm, "feature:" \o features[j].k, channelId),
                      features, j + 1, channelId)

(* getProjectMemory: the store after the lookup *)
getProjectMemory(pms, projectName, t) ==
    IF MapHas(pms, projectName) THEN pms
    ELSE MapSet(pms, projectName, NewProjectMemory(projectName, t))

(* syncChannelToProject: the project store afterwards *)
syncChannelToProject(pms, projectName, channelId, em, t) ==
    LET Synced(pms1) ==
            MapSet(pms1, projectName,
                   [SyncFeatures(
                      SyncTasks(
                        SyncPeople(registerChannel(MapGet(pms1, projectName),
                                                   channelId, t),
                                   em.people, 1, channelId),
                        em.tasks, 1, channelId, t),
                      em.features, 1, channelId)
                    EXCEPT !.lastSynced = t])
    IN Synced(getProjectMemory(pms, projectName, t))

----------------------------------------------------------------------------
(* 7. Confidence trail.                                                    *)

(* String.prototype.split(' ')[0] *)
RECURSIVE FirstField(_)
FirstField(s) ==
    IF Len(s) = 0 \/ Ch(s, 1) = " " THEN ""
    ELSE Ch(s, 1) \o FirstField(SubSeq(s, 2, Len(s)))

(* ConfidenceEntry.extractPatterns *)
extractPatterns(message) ==
    [ length |-> Len(message),
      hasHedging |-> Test(Words(<<"maybe", "might", "could", "perhaps", "possibly",
                                  "someday", "eventually">>), message, TRUE),
      hasUrgency |-> Test(Words(<<"asap", "urgent", "critical", "blocking",
                                  "right now", "immediately">>), message, TRUE),
      hasAssignee |-> Test(Alt(<< Cat(<<Lit("@"), Word>>),
                                  Cat(<< WordB, Words(<<"you", "he", "she", "they">>),
                                         WordB, WS,
                                         Words(<<"should", "can", "could", "need">>) >>) >>),
                           message, TRUE),
      hasDeadline |-> Test(Words(<<"by", "before", "due", "deadline", "friday",
                                   "monday", "tomorrow">>), message, TRUE),
      isQuestion |-> Test(Lit("?"), message, FALSE),
      firstWord |-> toLowerCase(FirstField(message)),
      wordCount |-> Len(MatchAll(WS, message, 1, FALSE)) + 1 ]

patternsOf == [text \in Texts |-> extractPatterns(text)]

(* new ConfidenceEntry(message, result, action); id stands for the string  *)
(* built from Date.now() and Math.random()                                 *)
NewConfidenceEntry(id, message, result, action, t) ==
    [ id |-> id, timestamp |-> t, message |-> message, result |-> result,
      action |-> action, outcome |-> None, correction |-> None,
      patterns |-> patternsOf[message] ]

(* a trail that drops the new entry when it is full *)
recordConfidenceDropNewest(trail, entry) ==
    LET Kept(pushed) ==
            IF Len(pushed) > ConfidenceTrailCap
            THEN SubSeq(pushed, 1, ConfidenceTrailCap) ELSE pushed
    IN Kept(Append(trail, entry))

(* recordConfidence: the trail afterwards *)
recordConfidence(trail, entry) ==
    LET Kept(pushed) ==
            IF Len(pushed) > ConfidenceTrailCap THEN Tail(pushed) ELSE pushed
    IN Kept(Append(trail, entry))

----------------------------------------------------------------------------
(* Math.round((matching / total) * 100) for 0 <= matching <= total, total > 0 *)
RoundPercent(matching, total) == (200 * matching + total) \div (2 * total)

(* a correlation that is complete when no entry has the pattern *)
analyzeVacuousCorrelation(trail, patternKey, targetConfidence) ==
    LET withPattern == SelectSeq(trail, LAMBDA e : e.patterns[patternKey])
        matchingConfidence ==
            SelectSeq(withPattern, LAMBDA e : e.result.confidence = targetConfidence)
    IN IF Len(withPattern) = 0
       THEN Some([total |-> 0, matchingTarget |-> 0, percentage |-> 100])
       ELSE Some([ total |-> Len(withPattern),
                   matchingTarget |-> Len(matchingConfidence),
                   percentage |-> RoundPercent(Len(matchingConfidence),
                                               Len(withPattern)) ])

(* analyzePatternCorrelation(patternKey, targetConfidence) *)
analyzePatternCorrelation(trail, patternKey, targetConfidence) ==
    LET Correlation(withPattern) ==
            LET matchingConfidence ==
                    SelectSeq(withPattern,
                              LAMBDA e : e.result.confidence = targetConfidence)
            IN IF Len(withPattern) = 0 THEN None
               ELSE Some([ total |-> Len(withPattern),
                           matchingTarget |-> Len(matchingConfidence),
                           percentage |-> RoundPercent(Len(matchingConfidence),
                                                       Len(withPattern)) ])
    IN Correlation(SelectSeq(trail, LAMBDA e : e.patterns[patternKey]))

(* analyzeConfidencePatterns *)
analyzeConfidencePatterns(trail) ==
    LET Count(Counted(_)) == Len(SelectSeq(trail, Counted))
        rejected == SelectSeq(trail, LAMBDA e : e.outcome = Some("rejected")
                                                  /\ e.result.confidence # "low")
    IN [ totalEntries |-> Len(trail),
         byConfidence |->
             [ c \in {"high", "medium", "low"} |->
                 Count(LAMBDA e : e.result.confidence = c) ],
         byOutcome |->
             [ accepted |-> Count(LAMBDA e : e.outcome = Some("accepted")),
               rejected |-> Count(LAMBDA e : e.outcome = Some("rejected")),
               corrected |-> Count(LAMBDA e : e.outcome = Some("corrected")),
               pending |-> Count(LAMBDA e : e.outcome = None) ],
         falsePositives |->
             [ j \in DOMAIN rejected |->
                 [ message |-> rejected[j].message,
                   predictedTitle |-> rejected[j].result.title,
                   patterns |-> rejected[j].patterns ] ],
         patterns |->
             [ hedgingReducesConfidence |->
                   analyzePatternCorrelation(trail, "hasHedging", "low"),
               urgencyIncreasesConfidence |->
                   analyzePatternCorrelation(trail, "hasUrgency", "high"),
               questionsAreLowConfidence |->
                   analyzePatternCorrelation(trail, "isQuestion", "low") ] ]

(* getAdjustmentReasons *)
getAdjustmentReasons(patterns) ==
    (IF patterns.hasHedging
     THEN <<"Message contains hedging language (maybe, might, someday)">> ELSE <<>>)
    \o (IF patterns.isQuestion THEN <<"Message is phrased as a question">> ELSE <<>>)
    \o (IF patterns.hasUrgency
        THEN <<"Message contains urgency indicators">> ELSE <<>>)
    \o (IF patterns.wordCount < 5 THEN <<"Message is very short">> ELSE <<>>)

levels == <<"low", "medium", "high">>

(* Array.prototype.indexOf, counted from 0: -1 when the item is not there *)
IndexOf(items, item) ==
    IF \E j \in DOMAIN items : items[j] = item
    THEN (CHOOSE j \in DOMAIN items : items[j] = item) - 1
    ELSE -1

(* a learner that also adjusts when a correlation is at its threshold *)
getLearnedAtThreshold(trail, message, baseConfidence) ==
    LET Adjusted(patterns, found, adjustment) ==
            [ originalConfidence |-> baseConfidence,
              adjustedConfidence |->
                  levels[Max(0, Min(2, IndexOf(levels, baseConfidence) + adjustment)) + 1],
              adjustment |-> adjustment,
              reasons |-> getAdjustmentReasons(patterns) ]
        Learned(patterns, found) ==
            Adjusted(patterns, found,
                     (IF /\ patterns.hasHedging
                         /\ IsSome(found.hedgingReducesConfidence)
                         /\ Val(found.hedgingReducesConfidence).percentage >= 60
                      THEN -1 ELSE 0)
                     + (IF /\ patterns.hasUrgency
                           /\ IsSome(found.urgencyIncreasesConfidence)
                           /\ Val(found.urgencyIncreasesConfidence).percentage >= 60
                        THEN 1 ELSE 0)
                     + (IF /\ patterns.isQuestion
                           /\ IsSome(found.questionsAreLowConfidence)
                           /\ Val(found.questionsAreLowConfidence).percentage >= 50
                        THEN -1 ELSE 0))
    IN Learned(patternsOf[message], analyzeConfidencePatterns(trail).patterns)

(* getLearnedConfidenceAdjustment(message, baseConfidence) *)
getLearnedConfidenceAdjustment(trail, message, baseConfidence) ==
    LET Adjusted(patterns, found, adjustment) ==
            [ originalConfidence |-> baseConfidence,
              adjustedConfidence |->
                  levels[Max(0, Min(2, IndexOf(levels, baseConfidence) + adjustment)) + 1],
              adjustment |-> adjustment,
              reasons |-> getAdjustmentReasons(patterns) ]
        Learned(patterns, found) ==
            Adjusted(patterns, found,
                     (IF /\ patterns.hasHedging
                         /\ IsSome(found.hedgingReducesConfidence)
                         /\ Val(found.hedgingReducesConfidence).percentage > 60
                      THEN -1 ELSE 0)
                     + (IF /\ patterns.hasUrgency
                           /\ IsSome(found.urgencyIncreasesConfidence)
                           /\ Val(found.urgencyIncreasesConfidence).percentage > 60
                        THEN 1 ELSE 0)
                     + (IF /\ patterns.isQuestion
                           /\ IsSome(found.questionsAreLowConfidence)
                           /\ Val(found.questionsAreLowConfidence).percentage > 50
                        THEN -1 ELSE 0))
    IN Learned(patternsOf[message], analyzeConfidencePatterns(trail).patterns)

(* an outcome that is set on every entry of the trail *)
recordOutcomeOnAll(trail, entryId, outcome, correction) ==
    [ trail |-> [j \in DOMAIN trail |->
                   [trail[j] EXCEPT !.outcome = Some(outcome),
                                    !.correction = correction]],
      result |-> \E j \in DOMAIN trail : trail[j].id = entryId ]

(* recordOutcome(entryId, outcome, correction): the trail afterwards and   *)
(* the value returned; find takes the first entry with the id              *)
recordOutcome(trail, entryId, outcome, correction) ==
    IF \E j \in DOMAIN trail : trail[j].id = entryId
    THEN LET first == CHOOSE j \in DOMAIN trail :
                         /\ trail[j].id = entryId
                         /\ \A k \in 1..(j - 1) : trail[k].id # entryId
         IN [ trail |-> [trail EXCEPT ![first] =
                           [@ EXCEPT !.outcome = Some(outcome),
                                     !.correction = correction]],
              result |-> TRUE ]
    ELSE [trail |-> trail, result |-> FALSE]

(* 4. Temporal patterns.                                                   *)

(* hours truncated instead of rounded *)
FloorHours(ms) == ms \div HourMs

(* Math.round(ms / HourMs) *)
RoundHours(ms) == (2 * ms + HourMs) \div (2 * HourMs)

(* parseInt of a string of decimal digits *)
RECURSIVE parseInt(_)
parseInt(s) ==
    IF Len(s) = 0 THEN 0
    ELSE 10 * parseInt(SubSeq(s, 1, Len(s) - 1))
           + (CHOOSE d \in 0..9 : Ch("0123456789", d + 1) = Ch(s, Len(s)))

Digits == Grp(1, Plus(Cls("d")))

(* hours?|days?|weeks? *)
Spans == Alt(<< Cat(<<Lit("hour"), Opt(Lit("s"))>>),
                Cat(<<Lit("day"), Opt(Lit("s"))>>),
                Cat(<<Lit("week"), Opt(Lit("s"))>>) >>)

(* extractTimeContext: timePatterns.relative *)
relativePatterns ==
    << [ pattern |-> Cat(<< Digits, Star(Cls("s")),
                            Alt(<< Cat(<<Lit("hour"), Opt(Lit("s"))>>),
                                   Cat(<<Lit("hr"), Opt(Lit("s"))>>), Lit("h") >>),
                            WS, Lit("ago") >>),
         unit |-> "hours", value |-> None ],
       [ pattern |-> Cat(<< Digits, Star(Cls("s")),
                            Alt(<<Cat(<<Lit("day"), Opt(Lit("s"))>>), Lit("d")>>),
                            WS, Lit("ago") >>),
         unit |-> "days", value |-> None ],
       [ pattern |-> Cat(<< Digits, Star(Cls("s")),
                            Alt(<<Cat(<<Lit("week"), Opt(Lit("s"))>>), Lit("w")>>),
                            WS, Lit("ago") >>),
         unit |-> "weeks", value |-> None ],
       [ pattern |-> Lit("yesterday"), unit |-> "days", value |-> Some(1) ],
       [ pattern |-> Lit("this morning"), unit |-> "hours", value |-> Some(12) ],
       [ pattern |-> Words(<<"just now", "right now", "currently">>),
         unit |-> "minutes", value |-> Some(0) ] >>

(* extractTimeContext: timePatterns.deadline *)
deadlinePatterns ==
    << [ pattern |-> Cat(<< Lit("by"), WS, Opt(Cat(<<Lit("this"), WS>>)),
                            Grp(1, Cat(<<Word, Lit("day")>>)) >>),
         type |-> "weekday" ],
       [ pattern |-> Cat(<< Lit("by"), WS, Opt(Cat(<<Lit("end of"), WS>>)),
                            Grp(1, Word) >>),
         type |-> "period" ],
       [ pattern |-> Cat(<< Alt(<< Cat(<<Lit("need"), Opt(Lit("s")),
                                         Lit(" to be done")>>),
                                   Lit("due") >>),
                            WS, Words(<<"by", "before">>), WS,
                            Grp(1, Plus(Cls("dot"))) >>),
         type |-> "deadline" ],
       [ pattern |-> Cat(<< Digits, Star(Cls("s")), Spans, WS,
                            Words(<<"from now", "left">>) >>),
         type |-> "duration" ] >>

(* extractTimeContext: timePatterns.duration *)
durationPatterns ==
    << [ pattern |-> Cat(<<Lit("for"), WS, Digits, Star(Cls("s")), Spans>>),
         type |-> "ongoing" ],
       [ pattern |-> Cat(<< Words(<<"been", "for">>), WS,
                            Opt(Cat(<<Lit("the"), WS>>)),
                            Words(<<"last", "past">>), WS, Digits,
                            Star(Cls("s")), Spans >>),
         type |-> "elapsed" ] >>

(* the last rule whose pattern matches *)
LastRuleMatch(rules, content) ==
    LET Last(ms) ==
            IF \E j \in DOMAIN ms : IsSome(ms[j])
            THEN LET j == CHOOSE j \in DOMAIN ms :
                             IsSome(ms[j]) /\ \A k \in (j + 1)..Len(ms) : ~IsSome(ms[k])
                 IN Some([rule |-> rules[j], match |-> Val(ms[j])])
            ELSE None
    IN Last([j \in DOMAIN rules |-> StrMatch(rules[j].pattern, content, TRUE)])

(* `for (...) { const match = content.match(pattern); if (match) {...;    *)
(* break; } }`: the first rule whose pattern matches, with its match, or   *)
(* null                                                                    *)
FirstRuleMatch(rules, content) ==
    LET First(ms) ==
            IF \E j \in DOMAIN ms : IsSome(ms[j])
            THEN LET j == CHOOSE j \in DOMAIN ms :
                             IsSome(ms[j]) /\ \A k \in 1..(j - 1) : ~IsSome(ms[k])
                 IN Some([rule |-> rules[j], match |-> Val(ms[j])])
            ELSE None
    IN First([j \in DOMAIN rules |-> StrMatch(rules[j].pattern, content, TRUE)])

(* extractTimeContext *)
extractTimeContext(content) ==
    LET Relative(hit) ==
            IF ~IsSome(hit) THEN None
            ELSE Some([ value |-> IF IsSome(Val(hit).rule.value)
                                  THEN Val(Val(hit).rule.value)
                                  ELSE parseInt(Val(Val(hit).match.caps[1])),
                        unit |-> Val(hit).rule.unit,
                        raw |-> Val(hit).match.raw ])
        Deadline(hit) ==
            IF ~IsSome(hit) THEN None
            ELSE Some([ target |-> Val(Val(hit).match.caps[1]),
                        type |-> Val(hit).rule.type,
                        raw |-> Val(hit).match.raw ])
        Duration(hit) ==
            IF ~IsSome(hit) THEN None
            ELSE Some([ value |-> parseInt(Val(Val(hit).match.caps[1])),
                        type |-> Val(hit).rule.type,
                        raw |-> Val(hit).match.raw ])
    IN [ relative |-> Relative(FirstRuleMatch(relativePatterns, content)),
         deadline |-> Deadline(FirstRuleMatch(deadlinePatterns, content)),
         duration |-> Duration(FirstRuleMatch(durationPatterns, content)) ]

timeContextOf == [text \in Texts |-> extractTimeContext(text)]

(* analyzeTemporalPatterns: stalenessAlerts, given the entity map of the   *)
(* channel (after getEntityMap) and the thread store, at time t            *)
RECURSIVE StalenessFrom(_, _, _, _)
StalenessFrom(tasks, j, ths, t) ==
    IF j > Len(tasks) THEN <<>>
    ELSE LET Stale(thread, ms) ==
                 IF ms > StaleHours * HourMs
                 THEN << [ task |-> tasks[j].k,
                           hoursSinceActivity |-> RoundHours(ms),
                           lastMentionedBy |->
                               IF Len(thread.messages) > 0
                               THEN Some(thread.messages[Len(thread.messages)].username)
                               ELSE None ] >>
                 ELSE <<>>
             Since(thread) == Stale(thread, t - thread.lastActivityAt)
             Alert(data, where) ==
                 IF data.status \in {"mentioned", "in_progress"} /\ IsSome(where)
                 THEN Since(MapGet(ths, Val(where).ch)[Val(where).idx])
                 ELSE <<>>
         IN Alert(tasks[j].v, getThreadByTaskId(ths, tasks[j].v.taskId))
              \o StalenessFrom(tasks, j + 1, ths, t)

stalenessAlerts(ems, ths, channelId, t) ==
    StalenessFrom(MapGet(getEntityMap(ems, channelId, t), channelId).tasks, 1, ths, t)

----------------------------------------------------------------------------
(* State.                                                                  *)

VARIABLES
    threads,          \* const threads:         channelId -> Array<Thread>
    entityMaps,       \* const entityMaps:      channelId -> EntityMap
    decisions,        \* const decisions:       channelId -> Array<Decision>
    taskOrigins,      \* const taskOrigins:     taskId -> TaskOrigin
    projectMemory,    \* const projectMemory:   projectName -> ProjectMemory
    confidenceTrail,  \* const confidenceTrail: Array<ConfidenceEntry>
    attentionCache,   \* const attentionCache:  channelId -> Array<ScoredMessage>
    now,              \* the value Date.now() returns
    entrySeq,         \* number of ConfidenceEntry objects built so far
    lastCall,         \* history: the call that has just returned, with its result
    pushLog,          \* history: channelId -> every (type, name) pushed, in order
    cacheLog,         \* history: channelId -> every scored message cached, in order
    linkLog,          \* history: every linkTaskToOrigin call, in order
    recordLog,        \* history: the id of every entry recordConfidence built, in order
    handlers,         \* the messageCreate handlers dispatched, in order, and where each stands
    taskHashes,       \* memory: const taskHashes: Set of normalised titles
    knownContext,     \* memory: const knownContext: channelId -> known context
    onboardingComplete, \* memory: const onboardingComplete: channelId -> boolean
    lastQuestion,     \* ai: const lastQuestion: channelId -> type of the question asked
    projectNumber,    \* config/users.json: projectConfig.projectNumber
    issues            \* github: every createIssue call, in order, and whether it created the issue

stores == <<threads, entityMaps, decisions, taskOrigins, projectMemory,
            confidenceTrail, attentionCache>>

(* the state of the services around the context engine *)
services == <<taskHashes, knownContext, onboardingComplete, lastQuestion,
              projectNumber, issues>>

history == <<lastCall, pushLog, cacheLog, linkLog, recordLog>>

vars == <<threads, entityMaps, decisions, taskOrigins, projectMemory,
          confidenceTrail, attentionCache, now, entrySeq,
          lastCall, pushLog, cacheLog, linkLog, recordLog, handlers,
          taskHashes, knownContext, onboardingComplete, lastQuestion,
          projectNumber, issues>>

(* ProjectMemory.getTrendingEntities: limit = 5 *)
TrendingLimit == 5

(* a sort that puts an entry in front of the entries with as many mentions *)
InsertBeforeTies(sorted, e) ==
    LET Placed(n) == SubSeq(sorted, 1, n) \o <<e>> \o SubSeq(sorted, n + 1, Len(sorted))
    IN Placed(Cardinality({j \in DOMAIN sorted : sorted[j].v.mentions > e.v.mentions}))

(* Array.prototype.sort((a, b) => b[1].mentions - a[1].mentions), which is *)
(* stable: an entry goes behind the entries with as many mentions or more  *)
InsertByMentions(sorted, e) ==
    LET Placed(n) == SubSeq(sorted, 1, n) \o <<e>> \o SubSeq(sorted, n + 1, Len(sorted))
    IN Placed(Cardinality({j \in DOMAIN sorted : sorted[j].v.mentions >= e.v.mentions}))

RECURSIVE SortByMentions(_, _, _)
SortByMentions(entries, j, sorted) ==
    IF j > Len(entries) THEN sorted
    ELSE SortByMentions(entries, j + 1, InsertByMentions(sorted, entries[j]))

(* ProjectMemory.getTrendingEntities() *)
getTrendingEntities(pm) ==
    LET Top(sorted) ==
            [j \in 1..Min(TrendingLimit, Len(sorted)) |->
               [ entity |-> sorted[j].k, mentions |-> sorted[j].v.mentions,
                 channels |-> Cardinality(sorted[j].v.channels) ]]
    IN Top(SortByMentions(pm.sharedEntities, 1, <<>>))

(* ProjectMemory.getTaskDistribution: channel -> number of active tasks *)
RECURSIVE TaskDistributionFrom(_, _, _)
TaskDistributionFrom(tasks, j, distribution) ==
    IF j > Len(tasks) THEN distribution
    ELSE TaskDistributionFrom(tasks, j + 1,
             MapSet(distribution, tasks[j].v.channelId,
                    MapGetOr(distribution, tasks[j].v.channelId, 0) + 1))

getTaskDistribution(pm) == TaskDistributionFrom(pm.activeTasks, 1, EmptyMap)

(* getCrossChannelContext: what it returns for the project memory it got *)
getCrossChannelContext(pm) ==
    [ channels |-> [j \in DOMAIN pm.channels |->
                      [ channelId |-> pm.channels[j].k,
                        name |-> pm.channels[j].v.name,
                        purpose |-> pm.channels[j].v.purpose,
                        registeredAt |-> pm.channels[j].v.registeredAt ]],
      trendingEntities |-> getTrendingEntities(pm),
      taskDistribution |-> getTaskDistribution(pm),
      totalTasks |-> Len(pm.activeTasks) ]

(* the clock reading when the process starts *)
StartMs == 1000

(* the services after the modules are loaded: nothing is known *)
ServicesInit ==
    /\ taskHashes = {}
    /\ knownContext = EmptyMap
    /\ onboardingComplete = EmptyMap
    /\ lastQuestion = EmptyMap
    /\ projectNumber = None
    /\ issues = <<>>

Init ==
    /\ threads = EmptyMap
    /\ entityMaps = EmptyMap
    /\ decisions = EmptyMap
    /\ taskOrigins = EmptyMap
    /\ projectMemory = EmptyMap
    /\ confidenceTrail = <<>>
    /\ attentionCache = EmptyMap
    /\ now = StartMs
    /\ entrySeq = 0
    /\ lastCall = [op |-> "none"]
    /\ pushLog = EmptyMap
    /\ cacheLog = EmptyMap
    /\ linkLog = <<>>
    /\ recordLog = <<>>
    /\ handlers = <<>>
    /\ ServicesInit

LogAppend(log, channelId, items) ==
    MapSet(log, channelId, MapGetOr(log, channelId, <<>>) \o items)

----------------------------------------------------------------------------
(* Operations.                                                             *)

(* Date.now() advances to a later instant; the last call is then no       *)
(* longer the call that has just returned                                  *)
Tick(t) ==
    /\ t > now
    /\ now' = t
    /\ lastCall' = [op |-> "none"]
    /\ UNCHANGED <<services, handlers, stores, entrySeq, pushLog, cacheLog, linkLog, recordLog>>

(* addMessageToThread: the thread store afterwards and the index of the    *)
(* thread the message went to                                              *)
addMessageToThread(ths, channelId, messageId, content, username, timestamp, t) ==
    LET Tagged(th1, allEntities) ==
            [th1 EXCEPT !.entities = @ \cup {allEntities[j] : j \in DOMAIN allEntities}]
        Placed(g, channelThreads, entities) ==
            [ threads |->
                MapSet(g.threads, channelId,
                       [channelThreads EXCEPT ![g.idx] =
                          Tagged(ThreadAddMessage(channelThreads[g.idx], messageId,
                                                  content, username, timestamp, t),
                                 entities.people \o entities.tasks
                                   \o entities.features \o entities.concepts)]),
              idx |-> g.idx ]
        Stored(g) == Placed(g, MapGet(g.threads, channelId), entitiesOf[content])
    IN Stored(getOrCreateThread(ths, channelId, content, t))

(* addMessageToThread called directly, with a caller-supplied timestamp *)
AddMessageToThread(channelId, content, username, timestamp) ==
    LET Returned(r) ==
            /\ threads' = r.threads
            /\ lastCall' = [ op |-> "addMessageToThread", channelId |-> channelId,
                             content |-> content, timestamp |-> timestamp,
                             threadIdx |-> r.idx ]
            /\ UNCHANGED <<services, handlers, entityMaps, decisions, taskOrigins, projectMemory,
                           confidenceTrail, attentionCache, now, entrySeq,
                           pushLog, cacheLog, linkLog, recordLog>>
    IN Returned(addMessageToThread(threads, channelId, <<channelId, timestamp>>,
                                   content, username, timestamp, now))

RECURSIVE AddPeople(_, _, _, _)
AddPeople(em, people, j, t) ==
    IF j > Len(people) THEN em
    ELSE AddPeople(addPerson(em, people[j], None, t), people, j + 1, t)

(* a registration that leaves the tasks of a message out *)
SkipTasks(em, tasks, j, t) == em

RECURSIVE AddTasks(_, _, _, _)
AddTasks(em, tasks, j, t) ==
    IF j > Len(tasks) THEN em
    ELSE AddTasks(addTask(em, tasks[j], None, "mentioned", t), tasks, j + 1, t)

RECURSIVE AddFeatures(_, _, _, _)
AddFeatures(em, features, j, t) ==
    IF j > Len(features) THEN em
    ELSE AddFeatures(addFeature(em, features[j], t), features, j + 1, t)

(* the (type, name) keys processMessage pushes for the entities of a message *)
PushedKeys(entities) ==
    [j \in DOMAIN entities.people |->
        <<"person", RemoveAll(toLowerCase(entities.people[j]), "@")>>]
    \o [j \in DOMAIN entities.tasks |->
        <<"task", Substring0(toLowerCase(entities.tasks[j]), TaskNameLen)>>]
    \o [j \in DOMAIN entities.features |-> <<"feature", entities.features[j]>>]

(* `if (projectName)` *)
Truthy(projectName) == IsSome(projectName) /\ Val(projectName) # ""

(* processMessage(channelId, content, username, projectName) at time t, on  *)
(* the stores it is given: the stores afterwards, the index of the thread  *)
(* the message went to, and the context it returns                         *)
processMessage(ths, ems, ds, ac, pms, channelId, content, username, projectName, t) ==
    LET ThreadSummary(thread) ==
            [ id |-> thread.id, topic |-> thread.topic,
              isActive |-> thread.isActive,
              messageCount |-> Len(thread.messages) ]
        Returned(r, ems1, entities, entityMap, decision, message) ==
            [ threads |-> r.threads,
              entityMaps |-> MapSet(ems1, channelId, entityMap),
              decisions |-> IF IsSome(decision)
                            THEN recordDecision(ds, channelId, Val(decision))
                            ELSE ds,
              attentionCache |-> scoreAndCacheMessage(ac, channelId, message),
              projectMemory |->
                  IF Truthy(projectName)
                  THEN syncChannelToProject(pms, Val(projectName), channelId,
                                            entityMap, t)
                  ELSE pms,
              threadIdx |-> r.idx,
              result |->
                  [ thread |-> ThreadSummary(MapGet(r.threads, channelId)[r.idx]),
                    entities |-> [ people |-> entities.people,
                                   tasks |-> entities.tasks,
                                   features |-> entities.features,
                                   resolvedPronouns |->
                                       resolvePronouns(entityMap, content) ],
                    currentFocus |-> getCurrentFocus(entityMap),
                    decision |-> decision,
                    timeContext |-> timeContextOf[content],
                    attention |-> calculateAttentionScore(content,
                                                          inReplyToOf[content],
                                                          FALSE) ] ]
        Enriched(r, ems1, entities) ==
            Returned(r, ems1, entities,
                     AddFeatures(AddTasks(AddPeople(MapGet(ems1, channelId),
                                                    entities.people, 1, t),
                                          entities.tasks, 1, t),
                                 entities.features, 1, t),
                     extractDecision(r.threads, content, username, channelId, t),
                     [content |-> content, username |-> username, timestamp |-> t])
    IN Enriched(addMessageToThread(ths, channelId, <<channelId, t>>, content,
                                   username, t, t),
                getEntityMap(ems, channelId, t),
                entitiesOf[content])

(* processMessage(channelId, content, username, projectName) *)
ProcessMessage(channelId, content, username, projectName) ==
    LET Returned(r) ==
            /\ threads' = r.threads
            /\ entityMaps' = r.entityMaps
            /\ decisions' = r.decisions
            /\ attentionCache' = r.attentionCache
            /\ projectMemory' = r.projectMemory
            /\ lastCall' =
                  [ op |-> "processMessage", channelId |-> channelId,
                    content |-> content, username |-> username,
                    projectName |-> projectName, threadIdx |-> r.threadIdx,
                    result |-> r.result ]
            /\ pushLog' = LogAppend(pushLog, channelId, PushedKeys(entitiesOf[content]))
            /\ cacheLog' =
                  LogAppend(cacheLog, channelId,
                            <<ScoredMessage([ content |-> content,
                                              username |-> username,
                                              timestamp |-> now ])>>)
            /\ UNCHANGED <<services, handlers, taskOrigins, confidenceTrail, now, entrySeq, linkLog,
                           recordLog>>
    IN Returned(processMessage(threads, entityMaps, decisions, attentionCache,
                               projectMemory, channelId, content, username,
                               projectName, now))

(* calculateAttentionScore(content, {inReplyTo, previousMentionedSameTopic}) *)
CalculateAttentionScore(content, inReplyTo, previousMentionedSameTopic) ==
    /\ lastCall' = [ op |-> "calculateAttentionScore", content |-> content,
                     inReplyTo |-> inReplyTo,
                     previousMentionedSameTopic |-> previousMentionedSameTopic,
                     result |-> calculateAttentionScore(content, inReplyTo,
                                                        previousMentionedSameTopic) ]
    /\ UNCHANGED <<services, handlers, threads, entityMaps, decisions, taskOrigins, projectMemory,
                   confidenceTrail, attentionCache, now, entrySeq, pushLog,
                   cacheLog, linkLog, recordLog>>

(* getLearnedConfidenceAdjustment(message, baseConfidence) *)
GetLearnedConfidenceAdjustment(message, baseConfidence) ==
    /\ lastCall' = [ op |-> "getLearnedConfidenceAdjustment", message |-> message,
                     baseConfidence |-> baseConfidence,
                     result |-> getLearnedConfidenceAdjustment(confidenceTrail,
                                                               message,
                                                               baseConfidence) ]
    /\ UNCHANGED <<services, handlers, threads, entityMaps, decisions, taskOrigins, projectMemory,
                   confidenceTrail, attentionCache, now, entrySeq, pushLog,
                   cacheLog, linkLog, recordLog>>

(* a clear that leaves the attention cache of the channel *)
clearKeepingCache(ths, ems, ds, ac, channelId) ==
    [ threads |-> MapDelete(ths, channelId),
      entityMaps |-> MapDelete(ems, channelId),
      decisions |-> MapDelete(ds, channelId),
      attentionCache |-> ac ]

(* clearChannelContext(channelId): the four per-channel stores afterwards *)
clearChannelContext(ths, ems, ds, ac, channelId) ==
    [ threads |-> MapDelete(ths, channelId),
      entityMaps |-> MapDelete(ems, channelId),
      decisions |-> MapDelete(ds, channelId),
      attentionCache |-> MapDelete(ac, channelId) ]

(* clearChannelContext(channelId) *)
ClearChannelContext(channelId) ==
    LET Cleared(r) ==
            /\ threads' = r.threads
            /\ entityMaps' = r.entityMaps
            /\ decisions' = r.decisions
            /\ attentionCache' = r.attentionCache
            /\ lastCall' = [op |-> "clearChannelContext", channelId |-> channelId]
            /\ UNCHANGED <<services, handlers, taskOrigins, projectMemory, confidenceTrail, now,
                           entrySeq, pushLog, cacheLog, linkLog, recordLog>>
    IN Cleared(clearChannelContext(threads, entityMaps, decisions, attentionCache,
                                   channelId))

(* recordOutcome(entryId, outcome, correction) *)
RecordOutcome(entryId, outcome, correction) ==
    LET Returned(r) ==
            /\ confidenceTrail' = r.trail
            /\ lastCall' = [ op |-> "recordOutcome", entryId |-> entryId,
                             outcome |-> outcome, correction |-> correction,
                             result |-> r.result ]
            /\ UNCHANGED <<services, handlers, threads, entityMaps, decisions, taskOrigins,
                           projectMemory, attentionCache, now, entrySeq, pushLog,
                           cacheLog, linkLog, recordLog>>
    IN Returned(recordOutcome(confidenceTrail, entryId, outcome, correction))

(* getEntityMap(channelId).addPerson(name) *)
AddPerson(channelId, name) ==
    LET ems == getEntityMap(entityMaps, channelId, now)
        em == addPerson(MapGet(ems, channelId), name, None, now)
    IN /\ entityMaps' = MapSet(ems, channelId, em)
       /\ lastCall' = [ op |-> "addPerson", channelId |-> channelId,
                        key |-> <<"person", RemoveAll(toLowerCase(name), "@")>> ]
       /\ pushLog' = LogAppend(pushLog, channelId,
                               << <<"person", RemoveAll(toLowerCase(name), "@")>> >>)
       /\ UNCHANGED <<services, handlers, threads, decisions, taskOrigins, projectMemory,
                      confidenceTrail, attentionCache, now, entrySeq,
                      cacheLog, linkLog, recordLog>>

(* getEntityMap(channelId).addTask(title, taskId, status) *)
AddTask(channelId, title, taskId, status) ==
    LET ems == getEntityMap(entityMaps, channelId, now)
        em == addTask(MapGet(ems, channelId), title, taskId, status, now)
        key == <<"task", Substring0(toLowerCase(title), TaskNameLen)>>
    IN /\ entityMaps' = MapSet(ems, channelId, em)
       /\ lastCall' = [ op |-> "addTask", channelId |-> channelId, key |-> key ]
       /\ pushLog' = LogAppend(pushLog, channelId, <<key>>)
       /\ UNCHANGED <<services, handlers, threads, decisions, taskOrigins, projectMemory,
                      confidenceTrail, attentionCache, now, entrySeq,
                      cacheLog, linkLog, recordLog>>

(* getEntityMap(channelId).addFeature(name) *)
AddFeature(channelId, name) ==
    LET ems == getEntityMap(entityMaps, channelId, now)
        em == addFeature(MapGet(ems, channelId), name, now)
    IN /\ entityMaps' = MapSet(ems, channelId, em)
       /\ lastCall' = [ op |-> "addFeature", channelId |-> channelId,
                        key |-> <<"feature", name>> ]
       /\ pushLog' = LogAppend(pushLog, channelId, << <<"feature", name>> >>)
       /\ UNCHANGED <<services, handlers, threads, decisions, taskOrigins, projectMemory,
                      confidenceTrail, attentionCache, now, entrySeq,
                      cacheLog, linkLog, recordLog>>

(* getEntityMap(channelId).resolveReference(reference) *)
ResolveReference(channelId, reference) ==
    /\ entityMaps' = getEntityMap(entityMaps, channelId, now)
    /\ lastCall' = [ op |-> "resolveReference", channelId |-> channelId,
                     reference |-> reference,
                     result |-> resolveReference(
                                  MapGet(getEntityMap(entityMaps, channelId, now),
                                         channelId),
                                  reference) ]
    /\ UNCHANGED <<services, handlers, threads, decisions, taskOrigins, projectMemory, confidenceTrail,
                   attentionCache, now, entrySeq, pushLog, cacheLog, linkLog,
                   recordLog>>

(* extractDecision(content, username, channelId) called directly *)
ExtractDecision(content, username, channelId) ==
    LET Returned(decision) ==
            /\ decisions' = IF IsSome(decision)
                            THEN recordDecision(decisions, channelId, Val(decision))
                            ELSE decisions
            /\ lastCall' = [ op |-> "extractDecision", channelId |-> channelId,
                             content |-> content, username |-> username,
                             result |-> decision ]
            /\ UNCHANGED <<services, handlers, threads, entityMaps, taskOrigins, projectMemory,
                           confidenceTrail, attentionCache, now, entrySeq,
                           pushLog, cacheLog, linkLog, recordLog>>
    IN Returned(extractDecision(threads, content, username, channelId, now))

(* getCrossChannelContext(projectName); getProjectMemory creates a missing *)
(* project memory                                                          *)
GetCrossChannelContext(projectName) ==
    LET Returned(pms) ==
            /\ projectMemory' = pms
            /\ lastCall' = [ op |-> "getCrossChannelContext",
                             projectName |-> projectName,
                             result |-> getCrossChannelContext(MapGet(pms, projectName)) ]
            /\ UNCHANGED <<services, handlers, threads, entityMaps, decisions, taskOrigins,
                           confidenceTrail, attentionCache, now, entrySeq,
                           pushLog, cacheLog, linkLog, recordLog>>
    IN Returned(getProjectMemory(projectMemory, projectName, now))

(* linkTaskToOrigin(taskId, channelId, threadId, messages) *)
LinkTaskToOrigin(taskId, channelId, threadId, messages) ==
    LET Returned(origin) ==
            /\ taskOrigins' = StoreOrigin(taskOrigins, taskId, origin)
            /\ threads' = LinkThreads(threads, taskId, channelId)
            /\ lastCall' = [ op |-> "linkTaskToOrigin", taskId |-> taskId,
                             channelId |-> channelId, threadId |-> threadId,
                             messages |-> messages, result |-> origin ]
            /\ linkLog' = Append(linkLog, [ taskId |-> taskId, channelId |-> channelId,
                                            threadId |-> threadId,
                                            messages |-> messages ])
            /\ UNCHANGED <<services, handlers, entityMaps, decisions, projectMemory, confidenceTrail,
                           attentionCache, now, entrySeq, pushLog, cacheLog, recordLog>>
    IN Returned(NewTaskOrigin(taskId, channelId, threadId, messages, now))

(* recordConfidence(message, result, action) *)
RecordConfidence(message, result, action) ==
    LET Returned(entry) ==
            /\ confidenceTrail' = recordConfidence(confidenceTrail, entry)
            /\ entrySeq' = entrySeq + 1
            /\ lastCall' = [ op |-> "recordConfidence", result |-> entry ]
            /\ recordLog' = Append(recordLog, entry.id)
            /\ UNCHANGED <<services, handlers, threads, entityMaps, decisions, taskOrigins, projectMemory,
                           attentionCache, now, pushLog, cacheLog, linkLog>>
    IN Returned(NewConfidenceEntry(entrySeq + 1, message, result, action, now))

(* scoreAndCacheMessage(channelId, message) called directly *)
ScoreAndCacheMessage(channelId, message) ==
    /\ attentionCache' = scoreAndCacheMessage(attentionCache, channelId, message)
    /\ lastCall' = [ op |-> "scoreAndCacheMessage", channelId |-> channelId,
                     result |-> ScoredMessage(message) ]
    /\ cacheLog' = LogAppend(cacheLog, channelId, <<ScoredMessage(message)>>)
    /\ UNCHANGED <<services, handlers, threads, entityMaps, decisions, taskOrigins, projectMemory,
                   confidenceTrail, now, entrySeq, pushLog, linkLog, recordLog>>

(* analyzeTemporalPatterns(channelId); getEntityMap creates a missing map *)
AnalyzeTemporalPatterns(channelId) ==
    /\ entityMaps' = getEntityMap(entityMaps, channelId, now)
    /\ lastCall' = [ op |-> "analyzeTemporalPatterns", channelId |-> channelId,
                     result |-> [ stalenessAlerts |->
                                    stalenessAlerts(entityMaps, threads, channelId, now) ] ]
    /\ UNCHANGED <<services, handlers, threads, decisions, taskOrigins, projectMemory, confidenceTrail,
                   attentionCache, now, entrySeq, pushLog, cacheLog, linkLog,
                   recordLog>>

----------------------------------------------------------------------------
(* 9. Formatted context and queries.  The source's strings hold characters *)
(* outside ASCII; each stands here as its code point in parentheses.       *)

Bullet == "(U+2022)"

EmDash == "(U+2014)"

WarningSign == "(U+26A0)(U+FE0F)"

(* Array.prototype.join *)
RECURSIVE Join(_, _)
Join(items, sep) ==
    IF Len(items) = 0 THEN ""
    ELSE IF Len(items) = 1 THEN items[1]
    ELSE items[1] \o sep \o Join(Tail(items), sep)

(* Array.prototype.slice(-n) *)
SliceLast(items, n) == SubSeq(items, Max(1, Len(items) - n + 1), Len(items))

(* [...new Set(items)]: the items in the order of their first occurrence *)
Unique(items) ==
    LET firsts == SelectSeq([j \in DOMAIN items |-> j],
                            LAMBDA j : \A k \in 1..(j - 1) : items[k] # items[j])
    IN [j \in DOMAIN firsts |-> items[firsts[j]]]

(* Thread.getSummary at time t *)
ThreadGetSummary(thread, t) ==
    [ topic |-> thread.topic,
      messageCount |-> Len(thread.messages),
      participants |-> Unique([j \in DOMAIN thread.messages |->
                                 thread.messages[j].username]),
      recentMessages |->
          LET recentMessages == SliceLast(thread.messages, 5)
          IN [j \in DOMAIN recentMessages |->
                recentMessages[j].username \o ": " \o recentMessages[j].content],
      taskCreated |-> thread.taskCreated,
      taskId |-> thread.taskId,
      duration |-> t - thread.startedAt ]

(* formatRelativeTime(timestamp) at time t *)
formatRelativeTime(timestamp, t) ==
    LET Ago(n, unit) == ToString(n) \o " " \o unit \o (IF n > 1 THEN "s" ELSE "") \o " ago"
        minutes == ((t - timestamp) \div 1000) \div 60
        hours == minutes \div 60
        days == hours \div 24
    IN IF days > 0 THEN Ago(days, "day")
       ELSE IF hours > 0 THEN Ago(hours, "hour")
       ELSE IF minutes > 0 THEN Ago(minutes, "minute")
       ELSE "just now"

(* TaskOrigin.getSummary at time t *)
OriginGetSummary(origin, t) ==
    [ taskId |-> origin.taskId,
      messageCount |-> Len(origin.messages),
      recentMessages |->
          LET recentMessages == SliceLast(origin.messages, 3)
          IN [j \in DOMAIN recentMessages |->
                recentMessages[j].username \o ": " \o recentMessages[j].content],
      decision |-> IF IsSome(origin.decision)
                   THEN Some([ what |-> Val(origin.decision).what,
                               why |-> Val(origin.decision).why,
                               who |-> Val(origin.decision).who ])
                   ELSE None,
      age |-> formatRelativeTime(origin.createdAt, t) ]

(* getTaskContextForAI(taskId): the text, or null without an origin *)
getTaskContextForAI(origins, taskId, t) ==
    LET Lines(summary) ==
            <<"**Task #" \o taskId \o " Origin:**", "Created " \o summary.age>>
            \o (IF IsSome(summary.decision)
                THEN <<"**Decision:** " \o Val(summary.decision).what>>
                     \o (IF IsSome(Val(summary.decision).why)
                            /\ Val(Val(summary.decision).why) # ""
                         THEN <<"**Reason:** " \o Val(Val(summary.decision).why)>>
                         ELSE <<>>)
                     \o (IF Val(summary.decision).who # ""
                         THEN <<"**Decided by:** " \o Val(summary.decision).who>>
                         ELSE <<>>)
                ELSE <<>>)
            \o <<"\n**Origin Conversation:**">>
            \o [j \in DOMAIN summary.recentMessages |->
                  "  " \o summary.recentMessages[j]]
    IN IF MapHas(origins, taskId)
       THEN Some(Join(Lines(OriginGetSummary(MapGet(origins, taskId), t)), "\n"))
       ELSE None

(* getRecentDecisions(channelId, limit) *)
getRecentDecisions(ds, channelId, limit) ==
    SliceLast(MapGetOr(ds, channelId, <<>>), limit)

(* `${f.name || f.title}` *)
NameOrTitle(f) ==
    IF f.name # "" THEN f.name
    ELSE IF IsSome(f.title) THEN Val(f.title) ELSE "undefined"

(* getFormattedContext(channelId) with its default options, at time t: the *)
(* text; ems is the entity map store after its getEntityMap                *)
getFormattedContext(ths, ems, ds, channelId, t) ==
    LET ThreadLines(active) ==
            IF IsSome(active)
            THEN LET summary == ThreadGetSummary(Val(active), t)
                 IN << "**Current Discussion Topic:** "
                         \o (IF IsSome(summary.topic) /\ Val(summary.topic) # ""
                             THEN Val(summary.topic) ELSE "General"),
                       "**Participants:** " \o Join(summary.participants, ", "),
                       "**Recent Messages:**" >>
                    \o [j \in DOMAIN SliceLast(summary.recentMessages, 10) |->
                          "  " \o SliceLast(summary.recentMessages, 10)[j]]
            ELSE <<>>
        FocusLines(focus) ==
            IF Len(focus) > 0
            THEN <<"\n**Currently Discussing:**">>
                 \o [j \in DOMAIN focus |->
                       "  - " \o focus[j].type \o ": " \o NameOrTitle(focus[j])]
            ELSE <<>>
        DecisionLines(recentDecisions) ==
            IF Len(recentDecisions) > 0
            THEN <<"\n**Recent Decisions:**">>
                 \o [j \in DOMAIN recentDecisions |->
                       "  - " \o recentDecisions[j].what
                         \o (IF IsSome(recentDecisions[j].why)
                                /\ Val(recentDecisions[j].why) # ""
                             THEN " (because: " \o Val(recentDecisions[j].why) \o ")"
                             ELSE "")]
            ELSE <<>>
        StaleLines(alerts) ==
            IF Len(alerts) > 0
            THEN <<"\n**" \o WarningSign \o " Stale Tasks:**">>
                 \o [j \in DOMAIN alerts |->
                       "  - \"" \o alerts[j].task \o "\" - "
                         \o ToString(alerts[j].hoursSinceActivity)
                         \o "h since last activity"]
            ELSE <<>>
    IN Join(ThreadLines(getActiveThread(ths, channelId))
              \o FocusLines(getCurrentFocus(MapGet(ems, channelId)))
              \o DecisionLines(getRecentDecisions(ds, channelId, 3))
              \o StaleLines(stalenessAlerts(ems, ths, channelId, t)),
            "\n")

(* answerContextQuery: /issue\s*#?(\d+)|task\s*#?(\d+)/i *)
issuePattern ==
    Alt(<< Cat(<<Lit("issue"), Star(Cls("s")), Opt(Lit("#")), Grp(1, Plus(Cls("d")))>>),
           Cat(<<Lit("task"), Star(Cls("s")), Opt(Lit("#")), Grp(2, Plus(Cls("d")))>>) >>)

(* the questions asked: one of each shape, for a task with an origin and   *)
(* for one without, and one of no shape                                    *)
Queries ==
    { "context on issue #7", "what about task 9", "Why did we decide that",
      "what is stale", "what are we discussing", "what is trending", "hello" }

(* answerContextQuery: the tests that route a query *)
QueryShape(query) ==
    LET Shape(lowerQuery) ==
            [ issueMatch |-> StrMatch(issuePattern, query, TRUE),
              whyDecide |-> Includes(lowerQuery, "why") /\ Includes(lowerQuery, "decide"),
              stale |-> \/ Includes(lowerQuery, "stale")
                        \/ Includes(lowerQuery, "fallen through")
                        \/ Includes(lowerQuery, "forgotten"),
              discussing |-> \/ Includes(lowerQuery, "discussing")
                             \/ Includes(lowerQuery, "talking about"),
              trending |-> \/ Includes(lowerQuery, "trending")
                           \/ Includes(lowerQuery, "popular") ]
    IN Shape(toLowerCase(query))

queryShapeOf == [query \in Queries |-> QueryShape(query)]

(* answerContextQuery(query, channelId, projectName) at time t: the entity *)
(* map store and the project store afterwards, and the answer              *)
answerContextQuery(ths, ems, ds, origins, pms, query, channelId, projectName, t) ==
    LET Answer(ems1, pms1, result) ==
            [entityMaps |-> ems1, projectMemory |-> pms1, result |-> result]
        Decisions(recentDecisions) ==
            IF Len(recentDecisions) > 0
            THEN Join([j \in DOMAIN recentDecisions |->
                         Bullet \o " " \o recentDecisions[j].what
                           \o (IF IsSome(recentDecisions[j].why)
                                  /\ Val(recentDecisions[j].why) # ""
                               THEN " " \o EmDash \o " because "
                                      \o Val(recentDecisions[j].why)
                               ELSE " (no reason recorded)")],
                      "\n")
            ELSE "No recent decisions found."
        Stale(alerts) ==
            IF Len(alerts) > 0
            THEN Join([j \in DOMAIN alerts |->
                         Bullet \o " \"" \o alerts[j].task \o "\" " \o EmDash \o " "
                           \o ToString(alerts[j].hoursSinceActivity)
                           \o "h since last activity"],
                      "\n")
            ELSE "No stale tasks found!"
        Discussing(focus, active) ==
            LET response ==
                    (IF IsSome(active) /\ IsSome(Val(active).topic)
                        /\ Val(Val(active).topic) # ""
                     THEN "**Topic:** " \o Val(Val(active).topic) \o "\n" ELSE "")
                    \o (IF Len(focus) > 0
                        THEN "**Focus:**\n"
                             \o Join([j \in DOMAIN focus |->
                                        Bullet \o " " \o focus[j].type \o ": "
                                          \o NameOrTitle(focus[j]) \o "\n"], "")
                        ELSE "")
            IN IF response # "" THEN response ELSE "No active discussion detected."
        Trending(trendingEntities) ==
            IF Len(trendingEntities) > 0
            THEN Join([j \in DOMAIN trendingEntities |->
                         Bullet \o " " \o trendingEntities[j].entity \o ": "
                           \o ToString(trendingEntities[j].mentions) \o " mentions"],
                      "\n")
            ELSE "No trending topics found."
        Routed(shape, ems1, pms1) ==
            IF IsSome(shape.issueMatch)
            THEN Answer(ems, pms,
                        getTaskContextForAI(
                            origins,
                            IF IsSome(Val(shape.issueMatch).caps[1])
                            THEN Val(Val(shape.issueMatch).caps[1])
                            ELSE Val(Val(shape.issueMatch).caps[2]),
                            t))
            ELSE IF shape.whyDecide
            THEN Answer(ems, pms, Some(Decisions(getRecentDecisions(ds, channelId, 5))))
            ELSE IF shape.stale
            THEN Answer(ems1, pms, Some(Stale(stalenessAlerts(ems, ths, channelId, t))))
            ELSE IF shape.discussing
            THEN Answer(ems1, pms,
                        Some(Discussing(getCurrentFocus(MapGet(ems1, channelId)),
                                        getActiveThread(ths, channelId))))
            ELSE IF shape.trending
            THEN IF Truthy(projectName)
                 THEN Answer(ems, pms1,
                             Some(Trending(getCrossChannelContext(
                                      MapGet(pms1, Val(projectName))).trendingEntities)))
                 ELSE Answer(ems, pms, Some("No trending topics found."))
            ELSE Answer(ems1, pms, Some(getFormattedContext(ths, ems1, ds, channelId, t)))
    IN Routed(queryShapeOf[query],
              getEntityMap(ems, channelId, t),
              IF Truthy(projectName) THEN getProjectMemory(pms, Val(projectName), t)
              ELSE pms)

(* answerContextQuery(query, channelId, projectName) *)
AnswerContextQuery(query, channelId, projectName) ==
    LET Returned(a) ==
            /\ entityMaps' = a.entityMaps
            /\ projectMemory' = a.projectMemory
            /\ lastCall' = [ op |-> "answerContextQuery", query |-> query,
                             channelId |-> channelId, projectName |-> projectName,
                             result |-> a.result ]
            /\ UNCHANGED <<services, handlers, threads, decisions, taskOrigins, confidenceTrail,
                           attentionCache, now, entrySeq, pushLog, cacheLog,
                           linkLog, recordLog>>
    IN Returned(answerContextQuery(threads, entityMaps, decisions, taskOrigins,
                                   projectMemory, query, channelId, projectName,
                                   now))

----------------------------------------------------------------------------
(* Inputs and helpers shared by the specifications below.                  *)

Channels == {"c1", "c2"}

Usernames == {"alice"}

TaskIds == {"7", "8"}

TaskTitles == {"login"}

RECURSIVE SumSeq(_)
SumSeq(ns) == IF Len(ns) = 0 THEN 0 ELSE Head(ns) + SumSeq(Tail(ns))

(* messages held by all threads *)
MessageCount ==
    SumSeq([c \in DOMAIN threads |->
              SumSeq([i \in DOMAIN threads[c].v |-> Len(threads[c].v[i].messages)])])

(* mentions of all task entities *)
TaskMentionCount ==
    SumSeq([c \in DOMAIN entityMaps |->
              SumSeq([i \in DOMAIN entityMaps[c].v.tasks |->
                        entityMaps[c].v.tasks[i].v.mentions])])

(* thread.messages.slice(-5).map(m => ({content, username, timestamp})) *)
MessageWindow(thread) ==
    LET n == Len(thread.messages)
        recent == SubSeq(thread.messages, Max(1, n - 4), n)
    IN [j \in DOMAIN recent |->
          [ content |-> recent[j].content, username |-> recent[j].username,
            timestamp |-> recent[j].timestamp ]]

----------------------------------------------------------------------------
(* Spec: threads over time.  Messages of two channels arrive through       *)
(* processMessage or through addMessageToThread with a timestamp the       *)
(* caller supplies, while the clock moves across the 30 minute mark.       *)

Instants == {StartMs, StartMs + ThreadIdleMs, StartMs + ThreadIdleMs + 1}

MaxMessages == 3

ClockStep == \E t \in Instants : Tick(t)

ThreadTexts == {"fix login", "so what"}

MessageStep ==
    /\ MessageCount < MaxMessages
    /\ \E c \in Channels, text \in ThreadTexts, u \in Usernames :
          ProcessMessage(c, text, u, None)

AppendStep ==
    /\ MessageCount < MaxMessages
    /\ \E c \in Channels, text \in ThreadTexts, u \in Usernames, t \in Instants :
          t <= now /\ AddMessageToThread(c, text, u, t)

Next == ClockStep \/ MessageStep \/ AppendStep

Spec == Init /\ [][Next]_vars

(* The threads that were there before a step and are there after it, as  *)
(* (position of the channel, position of the thread).                      *)
KeptThreads ==
    { ci \in (DOMAIN threads) \X (1..MaxMessages) :
        /\ ci[1] \in DOMAIN threads'
        /\ ci[2] \in DOMAIN threads[ci[1]].v
        /\ ci[2] \in DOMAIN threads'[ci[1]].v }

(* C5: a message that processMessage appends to an active thread more     *)
(* than 30 minutes after the thread's previous lastActivityAt marks the    *)
(* thread inactive, and an append after 30 minutes or less never does.     *)
C5_IdleThreadClosedOnAppend ==
    [][\A ci \in KeptThreads :
         LET old == threads[ci[1]].v[ci[2]]
             new == threads'[ci[1]].v[ci[2]]
         IN (/\ lastCall'.op = "processMessage"
             /\ old.isActive
             /\ Len(new.messages) = Len(old.messages) + 1)
              => (new.isActive <=> ~(now - old.lastActivityAt > 30 * 60 * 1000))]_vars

(* C6: the lastActivityAt of a thread never decreases.                     *)
C6_LastActivityMonotone ==
    [][\A ci \in KeptThreads :
         threads'[ci[1]].v[ci[2]].lastActivityAt
            >= threads[ci[1]].v[ci[2]].lastActivityAt]_vars

----------------------------------------------------------------------------
(* a thread but for its messages, last activity, activity flag and entities *)
ThreadFrame(thread) ==
    [ id |-> thread.id, channelId |-> thread.channelId, topic |-> thread.topic,
      taskCreated |-> thread.taskCreated, taskId |-> thread.taskId,
      startedAt |-> thread.startedAt ]

(* a step that adds a message to the threads of a channel either appends   *)
(* it to a thread that was active, when one was and the message opens no   *)
(* new topic, keeping the number of threads, or else adds one thread, with *)
(* the message as its only one; every other thread stays as it was         *)
Segmented ==
    lastCall'.op \in {"processMessage", "addMessageToThread"}
      => LET c == lastCall'.channelId
             before == MapGetOr(threads, c, <<>>)
             after == MapGet(threads', c)
             target == after[lastCall'.threadIdx]
         IN /\ \A i \in DOMAIN before : i # lastCall'.threadIdx => after[i] = before[i]
            /\ target.messages[Len(target.messages)].content = lastCall'.content
            /\ IF /\ \E i \in DOMAIN before : before[i].isActive
                  /\ ~topicChangeOf[lastCall'.content].isNewTopic
               THEN /\ Len(after) = Len(before)
                    /\ before[lastCall'.threadIdx].isActive
                    /\ ThreadFrame(target) = ThreadFrame(before[lastCall'.threadIdx])
                    /\ SubSeq(target.messages, 1, Len(target.messages) - 1)
                         = before[lastCall'.threadIdx].messages
               ELSE /\ Len(after) = Len(before) + 1
                    /\ lastCall'.threadIdx = Len(after)
                    /\ Len(target.messages) = 1

(* C21: a message for a channel with an active thread that is not a topic  *)
(* change is appended to an active thread of the channel and the number of *)
(* threads of the channel stays; a topic change, or a message for a        *)
(* channel without an active thread, creates exactly one thread, of which  *)
(* the message is the first.                                               *)
C21_ThreadSegmentation == [][Segmented]_vars

(* a channel holds two threads: the first, opened when there was none, was *)
(* continued by a second message and is still active, and the second was   *)
(* opened by a topic change                                                *)
C21_Witness ==
    \E c \in DOMAIN threads :
       /\ Len(threads[c].v) = 2
       /\ Len(threads[c].v[1].messages) = 2
       /\ threads[c].v[1].isActive
       /\ threads[c].v[2].messages[1].content = "so what"

(* the active threads of a channel, by position *)
ActiveThreads(channelThreads) ==
    {i \in DOMAIN channelThreads : channelThreads[i].isActive}

(* C30: in every reachable state each channel has at most one thread with  *)
(* isActive = true.                                                        *)
C30_AtMostOneActiveThread ==
    \A c \in DOMAIN threads : Cardinality(ActiveThreads(threads[c].v)) <= 1

(* C31: right after processMessage returns for a channel, getActiveThread  *)
(* of the channel is the thread the message was appended to, also when the *)
(* message opened a new thread while an older thread existed.              *)
C31_ActiveThreadIsThreadOfMessage ==
    lastCall.op = "processMessage"
      => FindActive(MapGet(threads, lastCall.channelId)) = lastCall.threadIdx

----------------------------------------------------------------------------
(* SpecLink: tasks linked to their origin.  Messages of two channels, some *)
(* opening a new thread and some stating a decision, and linkTaskToOrigin  *)
(* calls that name an existing thread of the channel and pass its last     *)
(* five messages, as the message handler does.                             *)

LinkInstants == {StartMs, StartMs + 1}

MaxLinkSteps == 4

(* the messages processed and the links made so far *)
LinkSteps == MessageCount + Len(linkLog)

LinkClockStep == \E t \in LinkInstants : Tick(t)

LinkMessageStep ==
    /\ LinkSteps < MaxLinkSteps
    /\ \E c \in Channels, text \in Contents, u \in Usernames :
          ProcessMessage(c, text, u, None)

LinkStep ==
    /\ LinkSteps < MaxLinkSteps
    /\ \E id \in TaskIds, c \in DOMAIN threads :
          \E i \in DOMAIN threads[c].v :
             LinkTaskToOrigin(id, threads[c].k, threads[c].v[i].id,
                              MessageWindow(threads[c].v[i]))

LinkNext == LinkClockStep \/ LinkMessageStep \/ LinkStep

SpecLink == Init /\ [][LinkNext]_vars

(* the threads of a channel that carry the given id *)
ThreadsNamed(channelId, threadId) ==
    LET channelThreads == MapGetOr(threads, channelId, <<>>) IN
    { i \in DOMAIN channelThreads : channelThreads[i].id = threadId }

(* C7: after linkTaskToOrigin(taskId, channelId, threadId, messages),      *)
(* where threadId names one existing thread of the channel, that thread    *)
(* has taskCreated = true and carries taskId.                              *)
C7_NamedThreadLinked ==
    (/\ lastCall.op = "linkTaskToOrigin"
     /\ Cardinality(ThreadsNamed(lastCall.channelId, lastCall.threadId)) = 1) =>
        \A i \in ThreadsNamed(lastCall.channelId, lastCall.threadId) :
            LET th == MapGet(threads, lastCall.channelId)[i] IN
            th.taskCreated /\ th.taskId = Some(lastCall.taskId)

(* C32: for every stored TaskOrigin whose thread still exists, the thread  *)
(* named by the threadId of the origin has taskCreated = true and the      *)
(* taskId of the origin, also after several tasks were created from the    *)
(* same thread.                                                            *)
C32_OriginThreadCarriesTask ==
    \A j \in DOMAIN taskOrigins :
       \A i \in ThreadsNamed(taskOrigins[j].v.channelId, taskOrigins[j].v.threadId) :
          LET th == MapGet(threads, taskOrigins[j].v.channelId)[i]
          IN th.taskCreated /\ th.taskId = Some(taskOrigins[j].v.taskId)

(* the calls of the link log made for a task id, as positions in the log *)
LinksOf(taskId) == { j \in DOMAIN linkLog : linkLog[j].taskId = taskId }

LastLinkOf(taskId) ==
    linkLog[CHOOSE j \in LinksOf(taskId) : \A k \in LinksOf(taskId) : k <= j]

(* C8: exactly one TaskOrigin is stored per linked task id, none for other *)
(* ids, and it holds the channel, thread id and message window of the most *)
(* recent linkTaskToOrigin call for that id.                               *)
C8_LastLinkWins ==
    \A id \in TaskIds :
        LET stored == { j \in DOMAIN taskOrigins : taskOrigins[j].k = id } IN
        IF LinksOf(id) = {} THEN stored = {}
        ELSE /\ Cardinality(stored) = 1
             /\ LET origin == MapGet(taskOrigins, id)
                    call == LastLinkOf(id)
                IN /\ origin.taskId = id
                   /\ origin.channelId = call.channelId
                   /\ origin.threadId = call.threadId
                   /\ [j \in DOMAIN origin.messages |-> origin.messages[j].content]
                        = [j \in DOMAIN call.messages |-> call.messages[j].content]

(* a task id was linked twice, from threads of different channels *)
C8_Witness ==
    \E id \in TaskIds :
        /\ Cardinality(LinksOf(id)) = 2
        /\ \E j, k \in LinksOf(id) :
              /\ j < k
              /\ linkLog[j].channelId # linkLog[k].channelId
              /\ linkLog[j].messages # linkLog[k].messages
        /\ MapGet(taskOrigins, id).channelId = LastLinkOf(id).channelId

(* the decisions of a channel recorded in the thread with the given id *)
DecisionsIn(channelId, threadId) ==
    LET channelDecisions == MapGetOr(decisions, channelId, <<>>) IN
    { j \in DOMAIN channelDecisions : channelDecisions[j].threadId = Some(threadId) }

(* C9: a task linked to a thread in which a decision was recorded gets a   *)
(* TaskOrigin whose decision is that decision, so that the summary used by *)
(* getTaskContextForAI reports it.                                         *)
C9_OriginCarriesDecision ==
    (/\ lastCall.op = "linkTaskToOrigin"
     /\ DecisionsIn(lastCall.channelId, lastCall.threadId) # {})
    => LET origin == MapGet(taskOrigins, lastCall.taskId) IN
       /\ IsSome(origin.decision)
       /\ IsSome(OriginSummaryDecision(origin))
       /\ \E j \in DecisionsIn(lastCall.channelId, lastCall.threadId) :
             Val(origin.decision) = MapGet(decisions, lastCall.channelId)[j]

----------------------------------------------------------------------------
(* SpecStale: staleness of tasks.  A channel's task entities are           *)
(* registered with a task id and a status, tasks are linked to threads,    *)
(* and analyzeTemporalPatterns is asked around the 24 hour mark.           *)

StaleInstants ==
    { StartMs, StartMs + StaleHours * HourMs, StartMs + StaleHours * HourMs + 1,
      StartMs + StaleHours * HourMs + 2 * ThreadIdleMs - 1 }

MaxStaleSteps == 3

StaleStatuses == {"mentioned", "in_progress", "done"}

StaleTaskIds == {"7"}

(* the threads are those of one channel; the tasks are tracked in both *)
StaleThreadChannels == {"c1"}

(* the messages processed, the links made and the task mentions so far *)
StaleSteps == MessageCount + Len(linkLog) + TaskMentionCount

StaleClockStep == \E t \in StaleInstants : Tick(t)

StaleMessageStep ==
    /\ StaleSteps < MaxStaleSteps
    /\ \E c \in StaleThreadChannels, u \in Usernames :
          ProcessMessage(c, "so what", u, None)

StaleLinkStep ==
    /\ StaleSteps < MaxStaleSteps
    /\ \E id \in TaskIds, c \in DOMAIN threads :
          \E i \in DOMAIN threads[c].v :
             LinkTaskToOrigin(id, threads[c].k, threads[c].v[i].id,
                              MessageWindow(threads[c].v[i]))

TaskStep ==
    /\ StaleSteps < MaxStaleSteps
    /\ \E c \in Channels, title \in TaskTitles, st \in StaleStatuses, id \in StaleTaskIds :
          AddTask(c, title, Some(id), st)

StaleStep == \E c \in Channels : AnalyzeTemporalPatterns(c)

StaleNext ==
    StaleClockStep \/ StaleMessageStep \/ StaleLinkStep \/ TaskStep \/ StaleStep

SpecStale == Init /\ [][StaleNext]_vars

(* every thread of the store that carries the task id *)
CarryingThreads(taskId) ==
    { th \in UNION { { threads[c].v[i] : i \in DOMAIN threads[c].v } : c \in DOMAIN threads } :
        th.taskId = Some(taskId) }

(* the alerts of the last analyzeTemporalPatterns call for a task name *)
AlertsFor(task) ==
    { j \in DOMAIN lastCall.result.stalenessAlerts :
        lastCall.result.stalenessAlerts[j].task = task }

(* C10: for a task entity with status 'mentioned' or 'in_progress' whose   *)
(* task id is carried by a thread, analyzeTemporalPatterns emits an alert  *)
(* exactly when now - thread.lastActivityAt exceeds 24 hours, and the      *)
(* alert's hoursSinceActivity is the whole hour nearest to that gap;       *)
(* a task entity with another status gets no alert.                        *)
C10_StalenessAlerts ==
    lastCall.op = "analyzeTemporalPatterns" =>
        LET tasks == MapGet(entityMaps, lastCall.channelId).tasks IN
        \A j \in DOMAIN tasks :
            LET data == tasks[j].v
                alerts == AlertsFor(tasks[j].k)
            IN /\ data.status \notin {"mentioned", "in_progress"} => alerts = {}
               /\ (IsSome(data.taskId) /\ data.status \in {"mentioned", "in_progress"}) =>
                    \A th \in CarryingThreads(Val(data.taskId)) :
                        LET gap == now - th.lastActivityAt IN
                        /\ alerts # {} <=> gap > 24 * 60 * 60 * 1000
                        /\ \A a \in alerts :
                              LET h == lastCall.result.stalenessAlerts[a].hoursSinceActivity
                              IN 2 * h * 60 * 60 * 1000 - 60 * 60 * 1000 <= 2 * gap
                                 /\ 2 * gap < 2 * h * 60 * 60 * 1000 + 60 * 60 * 1000

(* an alert was raised for a task whose thread was idle for 24 h 59 min    *)
(* 59.999 s, reported as 25 hours                                          *)
C10_Witness ==
    /\ lastCall.op = "analyzeTemporalPatterns"
    /\ \E j \in DOMAIN lastCall.result.stalenessAlerts :
          LET a == lastCall.result.stalenessAlerts[j]
              data == MapGet(MapGet(entityMaps, lastCall.channelId).tasks, a.task)
          IN /\ a.hoursSinceActivity = 25
             /\ IsSome(data.taskId)
             /\ \E th \in CarryingThreads(Val(data.taskId)) :
                   now - th.lastActivityAt = 25 * 60 * 60 * 1000 - 1

----------------------------------------------------------------------------
(* the thread store with every channel but the given one left out *)
OnlyChannel(ths, channelId) ==
    SelectSeq(ths, LAMBDA e : e.k = channelId)

(* SpecAlert: staleness as the message handler drives it.  Messages of two *)
(* channels are processed, which registers the task entities they mention  *)
(* without a task id, and analyzeTemporalPatterns is asked around the 24   *)
(* hour mark.                                                              *)

MaxAlertMessages == 2

AlertTexts == {"fix login", "so what"}

AlertMessageStep ==
    /\ MessageCount < MaxAlertMessages
    /\ \E c \in Channels, text \in AlertTexts, u \in Usernames :
          ProcessMessage(c, text, u, None)

AlertNext == StaleClockStep \/ AlertMessageStep \/ StaleStep

SpecAlert == Init /\ [][AlertNext]_vars

(* the alerts of the last call are those the same call yields when the     *)
(* other channels hold no threads                                          *)
AlertsOfChannelOnly ==
    lastCall.result.stalenessAlerts
      = stalenessAlerts(entityMaps, OnlyChannel(threads, lastCall.channelId),
                        lastCall.channelId, now)

(* every alert of the last call is about a task entity that has a task id  *)
AlertsOfLinkedTasks ==
    \A j \in DOMAIN lastCall.result.stalenessAlerts :
       IsSome(MapGet(MapGet(entityMaps, lastCall.channelId).tasks,
                     lastCall.result.stalenessAlerts[j].task).taskId)

(* C33: the stalenessAlerts of analyzeTemporalPatterns(ch) depend only on  *)
(* the threads and the entity map of ch, whatever threads other channels   *)
(* hold, and a task entity that has no task id never produces an alert     *)
(* from a thread that no task was linked to.                               *)
C33_AlertsOfChannelOnly ==
    lastCall.op = "analyzeTemporalPatterns" =>
        AlertsOfChannelOnly /\ AlertsOfLinkedTasks

(* SpecFocus: the focus stack of one channel.  Twelve entities, some of    *)
(* them sharing a name across types, are mentioned for the first time in a *)
(* fixed order through addPerson, addTask and addFeature; some of those    *)
(* already mentioned are mentioned again, and messages are processed in    *)
(* between.                                                                *)

FocusChannel == "c1"

FocusPool ==
    << [kind |-> "person",  name |-> "@Amy"],
       [kind |-> "task",    name |-> "amy"],
       [kind |-> "feature", name |-> "amy"],
       [kind |-> "person",  name |-> "bob"],
       [kind |-> "task",    name |-> "Login"],
       [kind |-> "feature", name |-> "Big Map"],
       [kind |-> "person",  name |-> "cat"],
       [kind |-> "task",    name |-> "bug"],
       [kind |-> "feature", name |-> "Red Dot"],
       [kind |-> "person",  name |-> "dan"],
       [kind |-> "task",    name |-> "log"],
       [kind |-> "feature", name |-> "Sky" ] >>

MaxExtraSteps == 2

(* the (type, name) key under which a pool entity is pushed *)
PoolKey(item) ==
    CASE item.kind = "person" -> <<"person", RemoveAll(toLowerCase(item.name), "@")>>
      [] item.kind = "task" -> <<"task", Substring0(toLowerCase(item.name), TaskNameLen)>>
      [] OTHER -> <<"feature", item.name>>

PoolKeys == [i \in DOMAIN FocusPool |-> PoolKey(FocusPool[i])]

PushesOf(channelId) == MapGetOr(pushLog, channelId, <<>>)

KeysPushed(channelId) ==
    LET log == PushesOf(channelId) IN {log[j] : j \in DOMAIN log}

(* the steps taken beyond the first mention of each entity: the pushes of  *)
(* keys already pushed, and the messages processed                         *)
ExtraSteps ==
    Len(PushesOf(FocusChannel)) - Cardinality(KeysPushed(FocusChannel)) + MessageCount

(* the entities that are mentioned more than once: those that share the   *)
(* name amy, the oldest of the pool, and the task a message mentions too   *)
Repeatable == {i \in DOMAIN FocusPool : PoolKeys[i][2] \in {"amy", "login"}}

(* pool entity i may be mentioned when keys have been pushed and extra     *)
(* steps taken: the earlier entities have been mentioned, and a repeated   *)
(* mention is of a repeatable entity and within the budget                 *)
MayMention(i, keys, extra) ==
    /\ \A j \in 1..(i - 1) : PoolKeys[j] \in keys
    /\ PoolKeys[i] \in keys => (i \in Repeatable /\ extra < MaxExtraSteps)

FocusPersonStep ==
    LET keys == KeysPushed(FocusChannel)
        extra == ExtraSteps
    IN \E i \in DOMAIN FocusPool :
        /\ FocusPool[i].kind = "person"
        /\ MayMention(i, keys, extra)
        /\ AddPerson(FocusChannel, FocusPool[i].name)

FocusTaskStep ==
    LET keys == KeysPushed(FocusChannel)
        extra == ExtraSteps
    IN \E i \in DOMAIN FocusPool :
        /\ FocusPool[i].kind = "task"
        /\ MayMention(i, keys, extra)
        /\ AddTask(FocusChannel, FocusPool[i].name, None, "mentioned")

FocusFeatureStep ==
    LET keys == KeysPushed(FocusChannel)
        extra == ExtraSteps
    IN \E i \in DOMAIN FocusPool :
        /\ FocusPool[i].kind = "feature"
        /\ MayMention(i, keys, extra)
        /\ AddFeature(FocusChannel, FocusPool[i].name)

FocusMessageStep ==
    /\ ExtraSteps < MaxExtraSteps
    /\ ProcessMessage(FocusChannel, "fix login", "alice", None)

FocusNext ==
    \/ FocusPersonStep
    \/ FocusTaskStep
    \/ FocusFeatureStep
    \/ FocusMessageStep

SpecFocus == Init /\ [][FocusNext]_vars

(* the distinct elements of a sequence, most recently occurring first *)
RECURSIVE RecentFirst(_)
RecentFirst(log) ==
    IF Len(log) = 0 THEN <<>>
    ELSE LET last == log[Len(log)]
             rest == RecentFirst(SubSeq(log, 1, Len(log) - 1))
         IN <<last>> \o SelectSeq(rest, LAMBDA k : k # last)

(* the (type, name) keys of a focus stack, top first *)
StackKeys(focusStack) ==
    [j \in DOMAIN focusStack |-> <<focusStack[j].type, focusStack[j].name>>]

FocusStackOf(ems, channelId) == MapGet(ems, channelId).focusStack

(* C1: the focus stack of every channel holds at most 10 entries, and it   *)
(* holds the 10 most recently pushed distinct entities, most recent first: *)
(* when an 11th distinct entity is pushed, the least recently pushed one   *)
(* is the one that is dropped.                                             *)
C1_FocusStackCapped ==
    \A c \in MapKeys(entityMaps) :
        LET keys == StackKeys(FocusStackOf(entityMaps, c))
            recent == RecentFirst(PushesOf(c))
        IN /\ Len(keys) <= 10
           /\ keys = SubSeq(recent, 1, Min(10, Len(recent)))

(* an 11th distinct entity has been pushed and the first one is gone *)
C1_Witness ==
    /\ MapHas(entityMaps, FocusChannel)
    /\ Cardinality(KeysPushed(FocusChannel)) = 11
    /\ Len(FocusStackOf(entityMaps, FocusChannel)) = 10
    /\ \A j \in 1..10 :
         StackKeys(FocusStackOf(entityMaps, FocusChannel))[j] # PushesOf(FocusChannel)[1]

NoDuplicateKeys(focusStack) ==
    \A i, j \in DOMAIN focusStack :
        i # j => StackKeys(focusStack)[i] # StackKeys(focusStack)[j]

(* the keys a step pushes on the stack of a channel *)
StepPushes(c) ==
    SubSeq(PushesOf(c)', Len(PushesOf(c)) + 1, Len(PushesOf(c)'))

(* a step that pushes only entities already on the stack keeps the length  *)
(* of the stack, puts the entity pushed last at index 0 and leaves the     *)
(* other entries as they were, in the order they had                       *)
RementionMovesToTop ==
    \A c \in MapKeys(entityMaps) :
        LET old == FocusStackOf(entityMaps, c)
            new == FocusStackOf(entityMaps', c)
            pushed == {StepPushes(c)[j] : j \in DOMAIN StepPushes(c)}
            others(stack) == SelectSeq(stack, LAMBDA e : <<e.type, e.name>> \notin pushed)
        IN (pushed # {} /\ \A k \in pushed : \E j \in DOMAIN old : StackKeys(old)[j] = k)
           => /\ Len(new) = Len(old)
              /\ StackKeys(new)[1] = StepPushes(c)[Len(StepPushes(c))]
              /\ others(new) = others(old)

(* C2: no focus stack ever holds two entries with the same (type, name),   *)
(* and mentioning an entity that is on the stack moves it to index 0       *)
(* without changing the length of the stack or the order of the others.    *)
C2_NoDuplicateRementionOnTop ==
    /\ [](\A c \in MapKeys(entityMaps) : NoDuplicateKeys(FocusStackOf(entityMaps, c)))
    /\ [][RementionMovesToTop]_vars

(* an entity that was not on top has been mentioned again, next to an      *)
(* entity of the same name and another type                                *)
C2_Witness ==
    /\ MapHas(entityMaps, FocusChannel)
    /\ lastCall.op = "addTask"
    /\ lastCall.key = <<"task", "amy">>
    /\ Len(PushesOf(FocusChannel)) >= 4
    /\ PushesOf(FocusChannel)[2] = <<"task", "amy">>
    /\ PushesOf(FocusChannel)[Len(PushesOf(FocusChannel)) - 1] # <<"task", "amy">>
    /\ StackKeys(FocusStackOf(entityMaps, FocusChannel))[1] = <<"task", "amy">>
    /\ \E j \in DOMAIN FocusStackOf(entityMaps, FocusChannel) :
         StackKeys(FocusStackOf(entityMaps, FocusChannel))[j] = <<"person", "amy">>

----------------------------------------------------------------------------
(* SpecTrail: the confidence trail.  recordConfidence is called until the  *)
(* trail has taken more entries than it keeps.  The calls are followed     *)
(* from the state in which the trail is two entries short of its cap.      *)

MaxRecorded == 1002

TrailResults ==
    { [isActionable |-> TRUE, confidence |-> c, title |-> "fix login"] :
        c \in {"high", "medium", "low"} }

(* the entries recorded before the calls that are followed *)
TrailRecorded == ConfidenceTrailCap - 2

(* the state after TrailRecorded calls of recordConfidence at StartMs *)
TrailInit ==
    /\ threads = EmptyMap
    /\ entityMaps = EmptyMap
    /\ decisions = EmptyMap
    /\ taskOrigins = EmptyMap
    /\ projectMemory = EmptyMap
    /\ confidenceTrail =
          [j \in 1..TrailRecorded |->
             NewConfidenceEntry(j, "fix login",
                                [ isActionable |-> TRUE, confidence |-> "high",
                                  title |-> "fix login" ],
                                "created", StartMs)]
    /\ attentionCache = EmptyMap
    /\ now = StartMs
    /\ entrySeq = TrailRecorded
    /\ lastCall = [op |-> "none"]
    /\ pushLog = EmptyMap
    /\ cacheLog = EmptyMap
    /\ linkLog = <<>>
    /\ recordLog = [j \in 1..TrailRecorded |-> j]
    /\ handlers = <<>>
    /\ ServicesInit

TrailStep ==
    /\ Len(recordLog) < MaxRecorded
    /\ \E result \in TrailResults :
         RecordConfidence("fix login", result, "created")

TrailNext == TrailStep

SpecTrail == TrailInit /\ [][TrailNext]_vars

(* C3: after n calls of recordConfidence the trail holds the last          *)
(* min(n, 1000) entries recorded, in the order they were recorded.         *)
C3_TrailKeepsLastThousand ==
    LET n == Len(recordLog)
        kept == Min(n, 1000)
    IN /\ Len(confidenceTrail) = kept
       /\ [j \in DOMAIN confidenceTrail |-> confidenceTrail[j].id]
            = SubSeq(recordLog, n - kept + 1, n)

(* the 1001st entry has been recorded and the first one is gone *)
C3_Witness ==
    /\ Len(recordLog) = 1001
    /\ Len(confidenceTrail) = 1000
    /\ confidenceTrail[1].id = recordLog[2]
    /\ confidenceTrail[1000].id = recordLog[1001]

----------------------------------------------------------------------------
(* SpecCache: the attention cache of one channel.  Messages are scored and *)
(* cached, directly or by processMessage, until the cache has taken more   *)
(* messages than it keeps.                                                 *)

CacheChannel == "c1"

MaxCached == 102

MaxCacheMessages == 1

CachedOf(channelId) == MapGetOr(cacheLog, channelId, <<>>)

CacheStep ==
    /\ Len(CachedOf(CacheChannel)) < MaxCached
    /\ ScoreAndCacheMessage(CacheChannel,
                            [ content |-> "fix login", username |-> "alice",
                              timestamp |-> now ])

CacheMessageStep ==
    /\ Len(CachedOf(CacheChannel)) < MaxCached
    /\ MessageCount < MaxCacheMessages
    /\ ProcessMessage(CacheChannel, "so what", "alice", None)

CacheNext ==
    \/ CacheStep
    \/ CacheMessageStep

SpecCache == Init /\ [][CacheNext]_vars

(* C4: the attention cache of every channel holds at most 100 scored       *)
(* messages, the most recent ones, in the order they arrived.              *)
C4_CacheKeepsLastHundred ==
    \A c \in MapKeys(attentionCache) :
        LET n == Len(CachedOf(c))
            kept == Min(n, 100)
        IN /\ Len(MapGet(attentionCache, c)) <= 100
           /\ MapGet(attentionCache, c) = SubSeq(CachedOf(c), n - kept + 1, n)

(* a 101st message has arrived, the first one is gone and the message      *)
(* processMessage cached is still there                                    *)
C4_Witness ==
    /\ MapHas(attentionCache, CacheChannel)
    /\ Len(CachedOf(CacheChannel)) = 101
    /\ Len(MapGet(attentionCache, CacheChannel)) = 100
    /\ MapGet(attentionCache, CacheChannel)[1] = CachedOf(CacheChannel)[2]
    /\ \E j \in 1..100 : MapGet(attentionCache, CacheChannel)[j].content = "so what"

----------------------------------------------------------------------------
(* SpecResolve: references.  People, tasks and features are mentioned in   *)
(* a channel in every order, and between the mentions a reference is       *)
(* resolved against the focus stack of the channel.                        *)

ResolveChannel == "c1"

ResolveItems ==
    { [kind |-> "person",  name |-> "amy"],
      [kind |-> "person",  name |-> "bob"],
      [kind |-> "task",    name |-> "login"],
      [kind |-> "task",    name |-> "bug"],
      [kind |-> "feature", name |-> "Big Map"] }

MaxResolvePushes == 4

(* the words of the fixed map, one of them capitalised, and words outside  *)
(* the map, among them a property every JavaScript object inherits         *)
References ==
    { "he", "she", "they", "it", "that", "this", "the issue", "the bug",
      "the task", "the feature", "It", "him", "constructor", "" }

ResolvePushStep ==
    /\ Len(MapGetOr(pushLog, ResolveChannel, <<>>)) < MaxResolvePushes
    /\ \E item \in ResolveItems :
          CASE item.kind = "person" -> AddPerson(ResolveChannel, item.name)
            [] item.kind = "task" ->
                 AddTask(ResolveChannel, item.name, None, "mentioned")
            [] OTHER -> AddFeature(ResolveChannel, item.name)

ResolveStep == \E reference \in References : ResolveReference(ResolveChannel, reference)

ResolveNext == ResolvePushStep \/ ResolveStep

SpecResolve == Init /\ [][ResolveNext]_vars

(* the kinds of entity a reference stands for *)
KindsOf(reference) ==
    CASE toLowerCase(reference) \in {"he", "she", "they"} -> {"person"}
      [] toLowerCase(reference) \in {"it", "that", "this"} -> {"task", "feature"}
      [] toLowerCase(reference) \in {"the issue", "the bug", "the task"} -> {"task"}
      [] toLowerCase(reference) = "the feature" -> {"feature"}
      [] OTHER -> {}

(* the position of the last push of a key in a push log, 0 when never pushed *)
LastPush(log, key) ==
    IF \E j \in DOMAIN log : log[j] = key
    THEN CHOOSE j \in DOMAIN log :
            log[j] = key /\ \A k \in (j + 1)..Len(log) : log[k] # key
    ELSE 0

(* result is what the claim asks of a reference to one of kinds, given the *)
(* focus stack and the push log of the channel                             *)
MostRecentOfKind(result, kinds, stack, log) ==
    IF \A j \in DOMAIN stack : stack[j].type \notin kinds
    THEN result = None
    ELSE /\ IsSome(result)
         /\ \E j \in DOMAIN stack : stack[j] = Val(result)
         /\ Val(result).type \in kinds
         /\ \A j \in DOMAIN stack :
               stack[j].type \in kinds
                 => LastPush(log, <<stack[j].type, stack[j].name>>)
                      <= LastPush(log, <<Val(result).type, Val(result).name>>)

(* C11: resolveReference returns the most recently pushed entry of the     *)
(* focus stack whose kind is the one the reference stands for (he, she,    *)
(* they: person; it, that, this: task or feature; the issue, the bug, the  *)
(* task: task; the feature: feature), null when the stack holds no such    *)
(* entry, and null for every word outside the fixed map.                   *)
C11_ReferenceResolvesToMostRecent ==
    lastCall.op = "resolveReference"
      => MostRecentOfKind(lastCall.result, KindsOf(lastCall.reference),
                          MapGet(entityMaps, lastCall.channelId).focusStack,
                          MapGetOr(pushLog, lastCall.channelId, <<>>))

(* "it" has resolved to a task that lies under a person on a stack that    *)
(* holds an older feature too                                              *)
C11_Witness ==
    /\ lastCall.op = "resolveReference"
    /\ lastCall.reference = "it"
    /\ IsSome(lastCall.result)
    /\ Val(lastCall.result).type = "task"
    /\ MapGet(entityMaps, ResolveChannel).focusStack[1].type = "person"
    /\ \E j \in DOMAIN MapGet(entityMaps, ResolveChannel).focusStack :
          MapGet(entityMaps, ResolveChannel).focusStack[j].type = "feature"

----------------------------------------------------------------------------
(* SpecDecide: decisions.  Messages with and without a decision arrive in  *)
(* two channels, through processMessage and through extractDecision        *)
(* called directly.                                                        *)

DecideContents == DecisionContents \cup {"so what"}

MaxDecideSteps == 3

DecisionCount == SumSeq([c \in DOMAIN decisions |-> Len(decisions[c].v)])

DecideMessageStep ==
    /\ MessageCount + DecisionCount < MaxDecideSteps
    /\ \E c \in Channels, text \in DecideContents :
          ProcessMessage(c, text, "alice", None)

DecideExtractStep ==
    /\ MessageCount + DecisionCount < MaxDecideSteps
    /\ \E c \in Channels, text \in DecideContents :
          ExtractDecision(text, "alice", c)

DecideNext == DecideMessageStep \/ DecideExtractStep

SpecDecide == Init /\ [][DecideNext]_vars

(* C12: extractDecision("Let's go with plan B because it's faster",        *)
(* "alice", ch) yields what = "go with plan B", why = "it's faster" and    *)
(* who = "alice": the what of a let's sentence leaves out the because      *)
(* clause that follows it.                                                 *)
C12_WhatLeavesOutReason ==
    (/\ lastCall.op = "extractDecision"
     /\ lastCall.content = "Let's go with plan B because it's faster"
     /\ lastCall.username = "alice")
      => /\ IsSome(lastCall.result)
         /\ Val(lastCall.result).what = "go with plan B"
         /\ Val(lastCall.result).why = Some("it's faster")
         /\ Val(lastCall.result).who = "alice"

(* the decision patterns that match a text *)
MatchingPatterns(content) ==
    {j \in DOMAIN decisionPatterns : Test(decisionPatterns[j], content, TRUE)}

(* what the pattern of lowest index that matches a text captures, trimmed, *)
(* or null when no pattern matches; tabulated over the texts that arrive   *)
FirstPatternWhat ==
    [content \in DecideContents |->
       LET What(matching) ==
               IF matching = {} THEN None
               ELSE Some(Trim(Val(Val(StrMatch(
                       decisionPatterns[CHOOSE j \in matching :
                                           \A k \in matching : j <= k],
                       content, TRUE)).caps[1])))
       IN What(MatchingPatterns(content))]

DecisionsOf(ds, c) == MapGetOr(ds, c, <<>>)

(* a step of extractDecision: without a matching pattern it returns null   *)
(* and changes no store; otherwise it appends the decision it returns, the *)
(* one of the first matching pattern, to the log of its channel only       *)
ExtractAppendsAtMostOne ==
    lastCall'.op = "extractDecision"
      => /\ UNCHANGED <<threads, entityMaps, taskOrigins, projectMemory,
                        confidenceTrail, attentionCache>>
         /\ \A c \in Channels \ {lastCall'.channelId} :
               DecisionsOf(decisions', c) = DecisionsOf(decisions, c)
         /\ IF FirstPatternWhat[lastCall'.content] = None
            THEN lastCall'.result = None /\ decisions' = decisions
            ELSE /\ IsSome(lastCall'.result)
                 /\ Val(lastCall'.result).what
                      = Val(FirstPatternWhat[lastCall'.content])
                 /\ DecisionsOf(decisions', lastCall'.channelId)
                      = Append(DecisionsOf(decisions, lastCall'.channelId),
                               Val(lastCall'.result))

(* a step of processMessage appends the decision it returns, if any, and   *)
(* nothing else, to the decision logs                                      *)
MessageAppendsAtMostOne ==
    lastCall'.op = "processMessage"
      => /\ \A c \in Channels \ {lastCall'.channelId} :
               DecisionsOf(decisions', c) = DecisionsOf(decisions, c)
         /\ IF FirstPatternWhat[lastCall'.content] = None
            THEN lastCall'.result.decision = None /\ decisions' = decisions
            ELSE /\ IsSome(lastCall'.result.decision)
                 /\ Val(lastCall'.result.decision).what
                      = Val(FirstPatternWhat[lastCall'.content])
                 /\ DecisionsOf(decisions', lastCall'.channelId)
                      = Append(DecisionsOf(decisions, lastCall'.channelId),
                               Val(lastCall'.result.decision))

(* C19: each extractDecision call, and so each processMessage call,        *)
(* appends at most one decision to the log of its channel, the one of the  *)
(* first pattern that matches in the fixed order; when no pattern matches  *)
(* extractDecision returns null and leaves the decision logs and every     *)
(* other store unchanged.                                                  *)
C19_AtMostOneDecisionPerCall ==
    [][ExtractAppendsAtMostOne /\ MessageAppendsAtMostOne]_vars

(* extractDecision has returned the decision of the first pattern for a    *)
(* message that a later pattern matches further left, next to an earlier   *)
(* decision of the channel                                                 *)
C19_Witness ==
    /\ lastCall.op = "extractDecision"
    /\ lastCall.content = "picked redis, we should ship"
    /\ IsSome(lastCall.result)
    /\ Val(lastCall.result).what = "ship"
    /\ Len(DecisionsOf(decisions, lastCall.channelId)) = 2

----------------------------------------------------------------------------
(* SpecSync: project memory.  Messages of two channels arrive with the     *)
(* name of a project, with an empty name or with none, and the             *)
(* cross-channel context of a project, known or not, is asked for.         *)

Projects == {"p1", "p2"}

SyncProjectNames == {Some("p1"), Some(""), None}

MaxSyncMessages == 3

(* a message that names entities and one that names none, so that the     *)
(* entity map is synced again as it was                                    *)
SyncTexts == {"fix login", ""}

SyncMessageStep ==
    /\ MessageCount < MaxSyncMessages
    /\ \E c \in Channels, text \in SyncTexts, p \in SyncProjectNames :
          ProcessMessage(c, text, "alice", p)

SyncContextStep == \E p \in Projects : GetCrossChannelContext(p)

SyncNext == SyncMessageStep \/ SyncContextStep

SpecSync == Init /\ [][SyncNext]_vars

(* the channel ids getCrossChannelContext lists for a project, in order;   *)
(* none for a project without a memory                                     *)
ListedChannels(pms, projectName) ==
    IF MapHas(pms, projectName)
    THEN [j \in DOMAIN getCrossChannelContext(MapGet(pms, projectName)).channels |->
            getCrossChannelContext(MapGet(pms, projectName)).channels[j].channelId]
    ELSE <<>>

ListedOnce(listed) == \A i, j \in DOMAIN listed : listed[i] = listed[j] => i = j

(* a step keeps every channel a project lists, and a message that arrives  *)
(* with the name of a project puts its channel on the list of the project  *)
SyncedStaysListed ==
    /\ \A p \in Projects : \A i \in DOMAIN ListedChannels(projectMemory, p) :
          \E j \in DOMAIN ListedChannels(projectMemory', p) :
             ListedChannels(projectMemory', p)[j] = ListedChannels(projectMemory, p)[i]
    /\ (lastCall'.op = "processMessage" /\ Truthy(lastCall'.projectName))
         => \E j \in DOMAIN ListedChannels(projectMemory', Val(lastCall'.projectName)) :
               ListedChannels(projectMemory', Val(lastCall'.projectName))[j]
                 = lastCall'.channelId

(* C13: however often syncChannelToProject runs for a project and a        *)
(* channel, getCrossChannelContext lists the channel exactly once for the  *)
(* project, and it lists every channel synced at least once: no list ever  *)
(* holds a channel twice, a sync puts its channel on the list, and no step *)
(* takes a channel off it.                                                 *)
C13_SyncedChannelsListedOnce ==
    /\ [](/\ \A p \in Projects : ListedOnce(ListedChannels(projectMemory, p))
          /\ lastCall.op = "getCrossChannelContext"
               => [j \in DOMAIN lastCall.result.channels |->
                      lastCall.result.channels[j].channelId]
                    = ListedChannels(projectMemory, lastCall.projectName))
    /\ [][SyncedStaysListed]_vars

(* the context of a project lists both channels, one of which has been     *)
(* synced twice                                                            *)
C13_Witness ==
    /\ lastCall.op = "getCrossChannelContext"
    /\ lastCall.projectName = "p1"
    /\ Len(lastCall.result.channels) = 2
    /\ \E j \in DOMAIN lastCall.result.trendingEntities :
          /\ lastCall.result.trendingEntities[j].mentions >= 3
          /\ lastCall.result.trendingEntities[j].channels = 2

(* the names under which syncChannelToProject shares the entities of an    *)
(* entity map                                                              *)
SharedNames(em) ==
    {"person:" \o k : k \in MapKeys(em.people)}
      \cup {"task:" \o k : k \in MapKeys(em.tasks)}
      \cup {"feature:" \o k : k \in MapKeys(em.features)}

(* the shared-entity table of a project, empty for an unknown project *)
SharedOf(pms, projectName) ==
    IF MapHas(pms, projectName) THEN MapGet(pms, projectName).sharedEntities ELSE EmptyMap

(* the entry of a shared entity, as addCrossChannelEntity starts it *)
SharedEntry(shared, name) == MapGetOr(shared, name, [channels |-> {}, mentions |-> 0])

(* a message that arrives with the name of a project syncs the entity map  *)
(* of its channel as it is after the message                               *)
SyncedOnce ==
    (lastCall'.op = "processMessage" /\ Truthy(lastCall'.projectName))
      => LET c == lastCall'.channelId
             before == SharedOf(projectMemory, Val(lastCall'.projectName))
             after == SharedOf(projectMemory', Val(lastCall'.projectName))
             names == SharedNames(MapGet(entityMaps', c))
         IN /\ MapKeys(after) = MapKeys(before) \cup names
            /\ \A name \in names :
                  /\ SharedEntry(after, name).channels
                       = SharedEntry(before, name).channels \cup {c}
                  /\ SharedEntry(after, name).mentions
                       = SharedEntry(before, name).mentions + 1
            /\ \A name \in MapKeys(before) \ names :
                  SharedEntry(after, name) = SharedEntry(before, name)
            /\ ( /\ MapHas(entityMaps, c)
                 /\ SharedNames(MapGet(entityMaps, c)) = names
                 /\ \A name \in names : c \in SharedEntry(before, name).channels )
                 => \A name \in MapKeys(after) :
                       SharedEntry(after, name).channels
                         = SharedEntry(before, name).channels

(* C25: each syncChannelToProject adds the channel to the channel set of   *)
(* every person, task and feature of the entity map and raises the counter *)
(* of the shared entity by exactly one, whatever the entity's own mention  *)
(* count; a further sync of the same entities leaves the channel sets as   *)
(* they were and raises the counters by one again.                         *)
C25_SyncCountsSyncs == [][SyncedOnce]_vars

(* an entity map is synced a third time, unchanged since the second sync,  *)
(* and its entities were mentioned once in the channel                     *)
C25_Witness ==
    /\ lastCall.op = "processMessage"
    /\ lastCall.content = ""
    /\ lastCall.projectName = Some("p1")
    /\ \E name \in MapKeys(SharedOf(projectMemory, "p1")) :
          /\ SharedEntry(SharedOf(projectMemory, "p1"), name).mentions = 3
          /\ SharedEntry(SharedOf(projectMemory, "p1"), name).channels
               = {lastCall.channelId}
    /\ \A j \in DOMAIN MapGet(entityMaps, lastCall.channelId).people :
          MapGet(entityMaps, lastCall.channelId).people[j].v.mentions = 1

----------------------------------------------------------------------------
(* SpecPipeline: the steps of processMessage.  Messages that name people,  *)
(* tasks and features, refer to them by pronoun, decide and set deadlines  *)
(* arrive on two channels, with the name of a project or without.          *)

PipelineTexts == {"fix it by friday", "let's use redis", "fix login", ""}

PipelineProjectNames == {Some("p1"), None}

MaxPipelineMessages == 2

PipelineStep ==
    /\ MessageCount < MaxPipelineMessages
    /\ \E c \in Channels, content \in PipelineTexts, p \in PipelineProjectNames :
          ProcessMessage(c, content, "alice", p)

PipelineNext == PipelineStep

SpecPipeline == Init /\ [][PipelineNext]_vars

(* the place of a (type, name) key in a focus stack, 0 when it is not there *)
StackPos(focusStack, key) ==
    IF \E i \in DOMAIN focusStack : <<focusStack[i].type, focusStack[i].name>> = key
    THEN CHOOSE i \in DOMAIN focusStack :
            <<focusStack[i].type, focusStack[i].name>> = key
    ELSE 0

(* the keys of the entities a processMessage call returned, in the order   *)
(* people, tasks, features                                                 *)
ReturnedKeys(result) ==
    PushedKeys([ people |-> result.entities.people, tasks |-> result.entities.tasks,
                 features |-> result.entities.features ])

(* what a processMessage step leaves behind, in the order of its steps     *)
PipelineOrder ==
    lastCall'.op = "processMessage"
      => LET c == lastCall'.channelId
             r == lastCall'.result
             thread == MapGet(threads', c)[lastCall'.threadIdx]
             em == MapGet(entityMaps', c)
             keys == ReturnedKeys(r)
             cache == MapGet(attentionCache', c)
         IN (* 1: the message is the last one of the thread returned *)
            /\ r.thread.id = thread.id
            /\ r.thread.messageCount = Len(thread.messages)
            /\ thread.messages[Len(thread.messages)].content = lastCall'.content
            (* 2: people, then tasks, then features are on the focus stack, *)
            (* a later one above an earlier one                             *)
            /\ \A j \in DOMAIN keys : StackPos(em.focusStack, keys[j]) > 0
            /\ \A i, j \in DOMAIN keys :
                  (i < j /\ \A k \in i + 1..Len(keys) : keys[k] # keys[i])
                    => StackPos(em.focusStack, keys[j]) < StackPos(em.focusStack, keys[i])
            (* 3: pronouns resolve against that stack *)
            /\ r.entities.resolvedPronouns = resolvePronouns(em, lastCall'.content)
            /\ \A j \in DOMAIN r.entities.resolvedPronouns :
                  StackPos(em.focusStack, <<r.entities.resolvedPronouns[j].v.type,
                                            r.entities.resolvedPronouns[j].v.name>>) > 0
            (* 4: a decision belongs to the thread the message went to *)
            /\ IsSome(r.decision)
                 => /\ Val(r.decision).threadId = Some(thread.id)
                    /\ DecisionsOf(decisions', c)[Len(DecisionsOf(decisions', c))]
                         = Val(r.decision)
            (* 5, 6: time context and attention of the message *)
            /\ r.timeContext = timeContextOf[lastCall'.content]
            /\ cache[Len(cache)].content = lastCall'.content
            (* 7: the sync, only for a project, sees the entities *)
            /\ IF Truthy(lastCall'.projectName)
               THEN LET pm == MapGet(projectMemory', Val(lastCall'.projectName))
                    IN /\ MapHas(pm.channels, c)
                       /\ \A j \in DOMAIN keys :
                             /\ MapHas(pm.sharedEntities, keys[j][1] \o ":" \o keys[j][2])
                             /\ c \in MapGet(pm.sharedEntities,
                                             keys[j][1] \o ":" \o keys[j][2]).channels
               ELSE projectMemory' = projectMemory

(* C14: processMessage appends to the thread, registers people, then      *)
(* tasks, then features, resolves pronouns, extracts the decision and the  *)
(* time context, scores and caches, and syncs only when a project name is  *)
(* given: the pronouns it returns are resolved against the focus stack     *)
(* that holds the entities of this message, and the project memory holds   *)
(* them after the sync.                                                    *)
C14_PipelineOrder == [][PipelineOrder]_vars

(* the first message of a channel names a task and refers to it by "it":   *)
(* the pronoun is resolved to that task, which the project has received    *)
C14_Witness ==
    /\ lastCall.op = "processMessage"
    /\ lastCall.content = "fix it by friday"
    /\ lastCall.projectName = Some("p1")
    /\ Len(MapGet(threads, lastCall.channelId)) = 1
    /\ lastCall.result.thread.messageCount = 1
    /\ MapHas(lastCall.result.entities.resolvedPronouns, "it")
    /\ MapGet(lastCall.result.entities.resolvedPronouns, "it").type = "task"
    /\ MapGet(lastCall.result.entities.resolvedPronouns, "it").name = "it by"
    /\ IsSome(lastCall.result.timeContext.deadline)
    /\ MapHas(MapGet(projectMemory, "p1").sharedEntities, "task:it by")

----------------------------------------------------------------------------
(* C34: for every processMessage call, the attention (score, level and     *)
(* reasons) returned in the bundle equals the attention stored for that    *)
(* message in the attention cache of the channel.                          *)
C34_BundleAttentionIsCached ==
    lastCall.op = "processMessage" =>
        LET cache == MapGet(attentionCache, lastCall.channelId)
        IN lastCall.result.attention = cache[Len(cache)].attention

(* SpecIsolate: channel isolation.  Messages arrive on two channels in any *)
(* interleaving, none with the name of a project.                          *)

MaxIsolateMessages == 3

IsolateStep ==
    /\ MessageCount < MaxIsolateMessages
    /\ \E c \in Channels, content \in PipelineTexts :
          ProcessMessage(c, content, "alice", None)

IsolateNext == IsolateStep

SpecIsolate == Init /\ [][IsolateNext]_vars

(* what a per-channel store holds for one channel *)
Restrict(store, channelId) == SelectSeq(store, LAMBDA e : e.k = channelId)

(* a processMessage step changes for its channel what the same call does   *)
(* when the stores hold that channel only, returns what that call returns, *)
(* and changes nothing for any other channel                               *)
IsolatedStep ==
    lastCall'.op = "processMessage"
      => LET c == lastCall'.channelId
             alone == processMessage(Restrict(threads, c), Restrict(entityMaps, c),
                                     Restrict(decisions, c),
                                     Restrict(attentionCache, c), EmptyMap, c,
                                     lastCall'.content, lastCall'.username, None,
                                     now)
         IN /\ Restrict(threads', c) = alone.threads
            /\ Restrict(entityMaps', c) = alone.entityMaps
            /\ Restrict(decisions', c) = alone.decisions
            /\ Restrict(attentionCache', c) = alone.attentionCache
            /\ lastCall'.result = alone.result
            /\ \A d \in Channels \ {c} :
                  /\ Restrict(threads', d) = Restrict(threads, d)
                  /\ Restrict(entityMaps', d) = Restrict(entityMaps, d)
                  /\ Restrict(decisions', d) = Restrict(decisions, d)
                  /\ Restrict(attentionCache', d) = Restrict(attentionCache, d)

(* C15: in any interleaving of processMessage calls for two channels, none *)
(* with a project name, the threads, entity registry, focus stack,         *)
(* decision log and attention cache of a channel end up as when the calls  *)
(* of that channel run alone in the same order: each call changes the      *)
(* stores of its channel as it does without the other channel, and leaves  *)
(* the stores of the other channel as they are.                            *)
C15_ChannelsIsolated == [][IsolatedStep]_vars

(* a message of one channel has arrived between two messages of the other, *)
(* and the second of those recorded a decision                            *)
C15_Witness ==
    /\ lastCall.op = "processMessage"
    /\ lastCall.channelId = "c1"
    /\ lastCall.content = "let's use redis"
    /\ Len(MapGetOr(attentionCache, "c1", <<>>)) = 2
    /\ Len(MapGetOr(attentionCache, "c2", <<>>)) = 1
    /\ threads[1].k = "c1" /\ threads[2].k = "c2"
    /\ Len(DecisionsOf(decisions, "c1")) = 1
    /\ Len(MapGet(entityMaps, "c2").focusStack) > 0

----------------------------------------------------------------------------
(* SpecScore: attention scores.  Messages whose rules sum to less than 0,  *)
(* to more than 100 and to values on both sides of the two thresholds are  *)
(* scored, directly with either context bonus and on arrival.              *)

ScoreTexts == ScoreContents \cup {"", "fix login"}

MaxScoreMessages == 1

ScoreMessageStep ==
    /\ MessageCount < MaxScoreMessages
    /\ \E c \in Channels, content \in ScoreTexts :
          ProcessMessage(c, content, "alice", None)

ScoreStep ==
    \E content \in ScoreTexts, inReplyTo \in BOOLEAN,
       previousMentionedSameTopic \in BOOLEAN :
          CalculateAttentionScore(content, inReplyTo, previousMentionedSameTopic)

ScoreNext == ScoreMessageStep \/ ScoreStep

SpecScore == Init /\ [][ScoreNext]_vars

(* the score is the sum of the points of the reasons, brought into         *)
(* [0, 100], and the level follows the two thresholds                      *)
ScoreAndLevel(attention) ==
    /\ attention.score \in 0..100
    /\ attention.score = Max(0, Min(100, SumPoints(attention.reasons)))
    /\ attention.level \in {"high", "medium", "low"}
    /\ attention.level = "high" <=> attention.score >= 70
    /\ attention.level = "medium" <=> (40 <= attention.score /\ attention.score < 70)
    /\ attention.level = "low" <=> attention.score < 40

(* C16: calculateAttentionScore returns a score within [0, 100] whatever   *)
(* rules and context bonuses fire, and the level is high exactly from 70,  *)
(* medium exactly from 40 to 69, and low below: for the direct call, for   *)
(* the score processMessage returns and for the scores in the caches.      *)
C16_ScoreClampedAndLevelled ==
    /\ lastCall.op = "calculateAttentionScore" => ScoreAndLevel(lastCall.result)
    /\ lastCall.op = "processMessage" => ScoreAndLevel(lastCall.result.attention)
    /\ \A c \in DOMAIN attentionCache : \A j \in DOMAIN attentionCache[c].v :
          ScoreAndLevel(attentionCache[c].v[j].attention)

(* a call whose points sum to more than 100 returned 100 and high, next to *)
(* a cached message whose points sum to less than 0 and that scored 0      *)
C16_Witness ==
    /\ lastCall.op = "calculateAttentionScore"
    /\ SumPoints(lastCall.result.reasons) > 100
    /\ lastCall.result.score = 100
    /\ lastCall.result.level = "high"
    /\ \E c \in DOMAIN attentionCache : \E j \in DOMAIN attentionCache[c].v :
          /\ SumPoints(attentionCache[c].v[j].attention.reasons) < 0
          /\ attentionCache[c].v[j].attention.score = 0
          /\ attentionCache[c].v[j].attention.level = "low"

(* a call on the threshold of high: 55 points of rules and both bonuses *)
C16_OnThreshold ==
    /\ lastCall.op = "calculateAttentionScore"
    /\ lastCall.result.score = 70
    /\ lastCall.inReplyTo /\ lastCall.previousMentionedSameTopic

----------------------------------------------------------------------------
(* SpecLearn: learned confidence.  Hedging messages are recorded, three in *)
(* five of them with low confidence, then a few more messages that hedge   *)
(* or are urgent questions, with low or high confidence; at any time the   *)
(* adjustment is asked for a message and a base confidence.                *)

MaxLearned == 43

(* the hedging messages recorded first, and those of them recorded low *)
LearnFilled == MaxLearned - 3

LearnLow == (3 * LearnFilled) \div 5

LearnResult(confidence) ==
    [isActionable |-> TRUE, confidence |-> confidence, title |-> "task"]

LearnMessages == LearnContents \cup {"so what"}

(* the base confidences asked about: the scale, and a value that is not on it *)
LearnBases == {"low", "medium", "high", "unsure"}

LearnFillStep ==
    /\ Len(confidenceTrail) < LearnFilled
    /\ RecordConfidence("maybe",
                        LearnResult(IF Len(confidenceTrail) < LearnLow
                                    THEN "low" ELSE "high"),
                        "pending")

LearnRecordStep ==
    /\ Len(confidenceTrail) >= LearnFilled
    /\ Len(confidenceTrail) < MaxLearned
    /\ \E message \in {"maybe", "asap?"}, confidence \in {"low", "high"} :
          RecordConfidence(message, LearnResult(confidence), "pending")

LearnQueryStep ==
    \E message \in LearnMessages, baseConfidence \in LearnBases :
       GetLearnedConfidenceAdjustment(message, baseConfidence)

LearnNext == LearnFillStep \/ LearnRecordStep \/ LearnQueryStep

SpecLearn == Init /\ [][LearnNext]_vars

(* the entries of the trail with a pattern, and those of them with a       *)
(* confidence                                                              *)
WithPattern(patternKey) ==
    Cardinality({j \in DOMAIN confidenceTrail : confidenceTrail[j].patterns[patternKey]})

WithPatternAnd(patternKey, confidence) ==
    Cardinality({j \in DOMAIN confidenceTrail :
                    /\ confidenceTrail[j].patterns[patternKey]
                    /\ confidenceTrail[j].result.confidence = confidence})

(* the share of the entries with the pattern that have the confidence is   *)
(* more than percent in a hundred                                          *)
ShareExceeds(patternKey, confidence, percent) ==
    /\ WithPattern(patternKey) > 0
    /\ 100 * WithPatternAnd(patternKey, confidence) > percent * WithPattern(patternKey)

(* that share, rounded to a whole percentage, halves upwards, is more than *)
(* percent                                                                 *)
RoundedShareExceeds(patternKey, confidence, percent) ==
    /\ WithPattern(patternKey) > 0
    /\ 2 * 100 * WithPatternAnd(patternKey, confidence)
         >= (2 * percent + 1) * WithPattern(patternKey)

(* the call returned a level of the scale: the base, when it is on the     *)
(* scale, moved by the adjustment and kept on the scale, where the         *)
(* adjustment sums -1 for hedging, +1 for urgency and -1 for a question    *)
(* whose correlation exceeds 60, 60 and 50 percent in the sense Exceeds    *)
AdjustedAsLearned(Exceeds(_, _, _)) ==
    lastCall.op = "getLearnedConfidenceAdjustment"
      => LET r == lastCall.result
             p == extractPatterns(lastCall.message)
             sum == (IF p.hasHedging /\ Exceeds("hasHedging", "low", 60)
                     THEN -1 ELSE 0)
                    + (IF p.hasUrgency /\ Exceeds("hasUrgency", "high", 60)
                       THEN 1 ELSE 0)
                    + (IF p.isQuestion /\ Exceeds("isQuestion", "low", 50)
                       THEN -1 ELSE 0)
             at(level) == CHOOSE j \in 1..3 : levels[j] = level
         IN /\ r.adjustedConfidence \in {"low", "medium", "high"}
            /\ r.adjustment = sum
            /\ lastCall.baseConfidence \in {"low", "medium", "high"}
                 => r.adjustedConfidence
                      = levels[Max(1, Min(3, at(lastCall.baseConfidence) + sum))]

(* no entry of the trail shows a feature of the message that an adjustment *)
(* looks at                                                                *)
NothingLearnedAbout(message) ==
    \A patternKey \in {"hasHedging", "hasUrgency", "isQuestion"} :
       patternsOf[message][patternKey] => WithPattern(patternKey) = 0

UnadjustedWithoutEvidence ==
    lastCall'.op = "getLearnedConfidenceAdjustment"
      => /\ confidenceTrail' = confidenceTrail
         /\ ( /\ NothingLearnedAbout(lastCall'.message)
              /\ lastCall'.baseConfidence \in {"low", "medium", "high"} )
              => /\ lastCall'.result.adjustment = 0
                 /\ lastCall'.result.adjustedConfidence = lastCall'.baseConfidence

(* C28: with an empty trail, or a trail without an entry that shows a      *)
(* feature of the message, getLearnedConfidenceAdjustment returns the      *)
(* adjustment 0 and the base confidence for each of low, medium and high,  *)
(* and the call appends nothing to the trail.                              *)
C28_NoAdjustmentWithoutEvidence == [][UnadjustedWithoutEvidence]_vars

(* an urgent question is asked about with base high when the trail holds   *)
(* hedging messages only, most of them low                                 *)
C28_Witness ==
    /\ lastCall.op = "getLearnedConfidenceAdjustment"
    /\ lastCall.message = "asap?"
    /\ lastCall.baseConfidence = "high"
    /\ Len(confidenceTrail) > 0
    /\ WithPattern("hasHedging") = Len(confidenceTrail)
    /\ ShareExceeds("hasHedging", "low", 60)
    /\ lastCall.result.adjustedConfidence = "high"

(* a hedging message is asked about when nothing has been recorded *)
C28_WitnessEmpty ==
    /\ lastCall.op = "getLearnedConfidenceAdjustment"
    /\ lastCall.message = "maybe"
    /\ confidenceTrail = <<>>
    /\ lastCall.result.adjustment = 0

(* C17, as stated: the adjustment counts a pattern when its correlation,   *)
(* the share of the recorded messages with the pattern that have the       *)
(* target confidence, exceeds the threshold.                               *)
C17_AdjustedByCorrelation == AdjustedAsLearned(ShareExceeds)

(* C17, amended: getLearnedConfidenceAdjustment returns one of low, medium *)
(* and high, the base level moved by the summed adjustment and clamped to  *)
(* the scale, where the adjustment counts a pattern when its correlation   *)
(* rounded to a whole percentage exceeds the threshold: a hedging->low or  *)
(* urgency->high share of at least 60.5%, a question->low share of at      *)
(* least 50.5%.                                                            *)
C17_AdjustedByRoundedCorrelation == AdjustedAsLearned(RoundedShareExceeds)

(* a hedging urgent question is asked about with base medium when two in   *)
(* three hedging messages were low and the one urgent question was high:   *)
(* -1 and +1 sum to 0 and the level stays                                  *)
C17_Witness ==
    /\ lastCall.op = "getLearnedConfidenceAdjustment"
    /\ lastCall.message = "maybe asap?"
    /\ lastCall.baseConfidence = "medium"
    /\ Len(confidenceTrail) > LearnFilled
    /\ ShareExceeds("hasHedging", "low", 60)
    /\ ShareExceeds("hasUrgency", "high", 60)
    /\ ~ShareExceeds("isQuestion", "low", 50)
    /\ lastCall.result.adjustment = 0
    /\ lastCall.result.adjustedConfidence = "medium"

(* a processMessage step for the empty message puts it on a thread of its  *)
(* channel, records no decision, and returns nothing found and no attention *)
EmptyHandled ==
    (lastCall'.op = "processMessage" /\ lastCall'.content = "")
      => LET r == lastCall'.result
             thread == MapGet(threads', lastCall'.channelId)[lastCall'.threadIdx]
         IN /\ MessageCount' = MessageCount + 1
            /\ r.thread.id = thread.id
            /\ r.thread.messageCount = Len(thread.messages)
            /\ r.thread.messageCount >= 1
            /\ thread.messages[Len(thread.messages)].content = ""
            /\ r.entities.people = <<>>
            /\ r.entities.tasks = <<>>
            /\ r.entities.features = <<>>
            /\ r.entities.resolvedPronouns = EmptyMap
            /\ r.decision = None
            /\ r.timeContext.relative = None
            /\ r.timeContext.deadline = None
            /\ r.timeContext.duration = None
            /\ r.attention.score = 0
            /\ r.attention.level = "low"
            /\ decisions' = decisions

(* C18: processMessage with content "" appends the message to a thread and *)
(* returns empty people, tasks and features lists, no resolved pronouns,   *)
(* decision null, the three time-context fields null and attention score 0 *)
(* with level low; it records no decision.                                 *)
C18_EmptyContentHandled == [][EmptyHandled]_vars

(* the empty message has arrived after a message that named a task and     *)
(* people, on the same channel: the focus stack holds entries, and still   *)
(* no pronoun is resolved                                                  *)
C18_Witness ==
    /\ lastCall.op = "processMessage"
    /\ lastCall.content = ""
    /\ lastCall.result.thread.messageCount = 2
    /\ Len(lastCall.result.currentFocus) > 0
    /\ lastCall.result.entities.resolvedPronouns = EmptyMap
    /\ lastCall.result.attention.score = 0

----------------------------------------------------------------------------
(* SpecQuery: context queries.  One channel receives a message, with the   *)
(* name of a project or without, a task is linked to its thread, time      *)
(* passes, and questions of every shape are asked about that channel and   *)
(* about one that has seen nothing, for that project, another, or none.    *)

QueryProjectNames == {None, Some("p1"), Some("p2")}

QueryInstants == {StartMs, StartMs + 2 * HourMs}

MaxQueryMessages == 1

QueryClockStep == \E t \in QueryInstants : Tick(t)

QueryMessageStep ==
    /\ MessageCount < MaxQueryMessages
    /\ \E p \in {None, Some("p1")} :
          ProcessMessage("c1", "let's use redis", "alice", p)

QueryLinkStep ==
    /\ Len(linkLog) < MaxQueryMessages
    /\ \E c \in DOMAIN threads : \E i \in DOMAIN threads[c].v :
          LinkTaskToOrigin("7", threads[c].k, threads[c].v[i].id,
                           MessageWindow(threads[c].v[i]))

QueryStep ==
    \E query \in Queries, c \in Channels, p \in QueryProjectNames :
       AnswerContextQuery(query, c, p)

QueryNext == QueryClockStep \/ QueryMessageStep \/ QueryLinkStep \/ QueryStep

SpecQuery == Init /\ [][QueryNext]_vars

(* the queries of no question shape *)
ShapelessQueries == {"hello"}

(* a query of no shape is answered with the formatted context of the channel *)
QueryFallsBack ==
    (lastCall.op = "answerContextQuery" /\ lastCall.query \in ShapelessQueries)
      => lastCall.result
           = Some(getFormattedContext(threads, entityMaps, decisions,
                                      lastCall.channelId, now))

(* an answerContextQuery step changes no store *)
QueryChangesNothing ==
    lastCall'.op = "answerContextQuery"
      => UNCHANGED <<threads, entityMaps, decisions, taskOrigins, projectMemory,
                     confidenceTrail, attentionCache>>

(* C20: answerContextQuery is read-only: for every query, channel (seen    *)
(* before or not) and project name (known or not) it leaves the threads,   *)
(* entity maps, decision logs, task origins, project memories, confidence  *)
(* trail and attention caches unchanged, and it returns the formatted      *)
(* context when no question shape matches.                                 *)
C20_QueryReadOnly == [](QueryFallsBack) /\ [][QueryChangesNothing]_vars

(* the part of C20 that holds: the fallback to the formatted context *)
C20_FallsBackToFormattedContext == QueryFallsBack

----------------------------------------------------------------------------
(* SpecEngine: the operations of the engine in any order on two channels:  *)
(* messages with and without a project, direct appends and registrations,  *)
(* task links, decisions, recorded confidences and their outcomes, and the *)
(* reading operations; clearChannelContext is never called.                *)

MaxEngineSteps == 2

EngineTexts == EngineContents \cup {"[object Object]"}

EngineProjectNames == {Some("p1"), None}

(* entries of a log over all channels *)
Logged(log) == SumSeq([c \in DOMAIN log |-> Len(log[c].v)])

(* the messages, registrations, decisions, links and recorded confidences  *)
(* so far                                                                  *)
EngineSteps ==
    MessageCount + Logged(pushLog) + Logged(decisions) + Len(linkLog) + Len(recordLog)

EngineMessageStep ==
    /\ EngineSteps < MaxEngineSteps
    /\ \E c \in Channels, text \in EngineTexts, p \in EngineProjectNames :
          ProcessMessage(c, text, "alice", p)

EngineAppendStep ==
    /\ EngineSteps < MaxEngineSteps
    /\ \E c \in Channels : AddMessageToThread(c, "so what", "alice", now)

EngineAddStep ==
    /\ EngineSteps < MaxEngineSteps
    /\ \E c \in Channels :
          \/ AddPerson(c, "@Object")
          \/ AddTask(c, "Login Page", Some("7"), "open")
          \/ AddFeature(c, "Login Page")

EngineLinkStep ==
    /\ EngineSteps < MaxEngineSteps
    /\ \E c \in DOMAIN threads :
          \E i \in DOMAIN threads[c].v :
             LinkTaskToOrigin("7", threads[c].k, threads[c].v[i].id,
                              MessageWindow(threads[c].v[i]))

EngineRecordStep ==
    \/ /\ EngineSteps < MaxEngineSteps
       /\ RecordConfidence("fix Login Page", LearnResult("high"), "pending")
    \/ \E id \in 1..MaxEngineSteps : RecordOutcome(id, "accepted", None)

EngineDecideStep ==
    /\ EngineSteps < MaxEngineSteps
    /\ \E c \in Channels : ExtractDecision("let's use redis", "alice", c)

EngineReadStep ==
    \/ \E c \in Channels : ResolveReference(c, "it")
    \/ GetCrossChannelContext("p1")

EngineNext ==
    \/ EngineMessageStep
    \/ EngineAppendStep
    \/ EngineAddStep
    \/ EngineLinkStep
    \/ EngineRecordStep
    \/ EngineDecideStep
    \/ EngineReadStep


SpecEngine == Init /\ [][EngineNext]_vars

(* the registry of an entity map that holds the entities of a type *)
Registry(em, type) ==
    CASE type = "person" -> em.people
      [] type = "task" -> em.tasks
      [] OTHER -> em.features

(* the (type, name) keys of the registries of a channel *)
RegistryKeys(ems, c) ==
    IF MapHas(ems, c)
    THEN UNION { {<<type, k>> : k \in MapKeys(Registry(MapGet(ems, c), type))} :
                 type \in {"person", "task", "feature"} }
    ELSE {}

(* the mention counter of an entity of a channel, 0 for an unknown entity *)
Mentions(ems, c, key) ==
    IF key \in RegistryKeys(ems, c)
    THEN MapGet(Registry(MapGet(ems, c), key[1]), key[2]).mentions
    ELSE 0

(* the mentions a call recognises for a channel, in order *)
Recognised(call, c) ==
    IF call.op = "processMessage" /\ call.channelId = c
    THEN PushedKeys(entitiesOf[call.content])
    ELSE IF call.op \in {"addPerson", "addTask", "addFeature"} /\ call.channelId = c
         THEN <<call.key>>
         ELSE <<>>

Occurrences(keys, key) == Cardinality({j \in DOMAIN keys : keys[j] = key})

RegistriesGrow ==
    \A c \in Channels :
       /\ Len(MapGetOr(threads', c, <<>>)) >= Len(MapGetOr(threads, c, <<>>))
       /\ RegistryKeys(entityMaps, c) \subseteq RegistryKeys(entityMaps', c)
       /\ \A key \in RegistryKeys(entityMaps', c) :
             Mentions(entityMaps', c, key)
               = Mentions(entityMaps, c, key) + Occurrences(Recognised(lastCall', c), key)

(* C22: while clearChannelContext is not called, no operation of the       *)
(* engine lowers the number of threads of a channel or removes a key from  *)
(* its people, task or feature registry, and the mention counter of every  *)
(* entity grows by exactly one for each mention the operation recognises.  *)
C22_RegistriesOnlyGrow == [][RegistriesGrow]_vars

(* a message that names twice a person registered before: 1 + 2 mentions *)
C22_Witness ==
    /\ lastCall.op = "processMessage"
    /\ lastCall.content = "[object Object]"
    /\ Mentions(entityMaps, lastCall.channelId, <<"person", "object">>) = 3

----------------------------------------------------------------------------
(* SpecTrend: messages of two channels arrive with the name of a project,  *)
(* so that the project shares more than five entities with equal and with  *)
(* different counts, and getCrossChannelContext lists the trending ones.   *)

MaxTrendMessages == 3

TrendTexts == {"lol", "urgent fix", "@bob must fix urgent bug for customer"}

TrendMessageStep ==
    /\ MessageCount < MaxTrendMessages
    /\ \E c \in Channels, text \in TrendTexts :
          ProcessMessage(c, text, "alice", Some("p1"))

TrendNext == TrendMessageStep \/ SyncContextStep

SpecTrend == Init /\ [][TrendNext]_vars

(* shared[i] goes before shared[j] in the trending order *)
Outranks(shared, i, j) ==
    \/ shared[i].v.mentions > shared[j].v.mentions
    \/ shared[i].v.mentions = shared[j].v.mentions /\ i < j

(* the positions in the shared-entity table of the entities listed *)
ListedAt(shared, trending) ==
    [j \in DOMAIN trending |-> MapIndex(shared, trending[j].entity)]

TrendingOf(shared, trending) ==
    /\ Len(trending) = Min(TrendingLimit, Len(shared))
    /\ \A j \in DOMAIN trending :
          /\ MapHas(shared, trending[j].entity)
          /\ trending[j].mentions = MapGet(shared, trending[j].entity).mentions
    /\ \A j, k \in DOMAIN trending :
          j < k => Outranks(shared, ListedAt(shared, trending)[j],
                            ListedAt(shared, trending)[k])
    /\ \A j \in DOMAIN trending, i \in DOMAIN shared :
          (\A k \in DOMAIN trending : ListedAt(shared, trending)[k] # i)
            => Outranks(shared, ListedAt(shared, trending)[j], i)

(* C23: getTrendingEntities returns at most five shared entities, those    *)
(* with the highest mention counts, in descending order of the count, and  *)
(* entities with equal counts in the order in which they were first put    *)
(* into the shared-entity table.                                           *)
C23_TrendingTopFiveStable ==
    lastCall.op = "getCrossChannelContext"
      => TrendingOf(MapGet(projectMemory, lastCall.projectName).sharedEntities,
                    lastCall.result.trendingEntities)

(* more than five shared entities, the first of the table not the first    *)
(* listed, and an entity left out that has the count of the last listed    *)
C23_Witness ==
    /\ lastCall.op = "getCrossChannelContext"
    /\ LET shared == MapGet(projectMemory, lastCall.projectName).sharedEntities
           trending == lastCall.result.trendingEntities
       IN /\ Len(shared) > TrendingLimit
          /\ trending[1].entity # shared[1].k
          /\ \E i \in DOMAIN shared :
                /\ \A k \in DOMAIN trending : trending[k].entity # shared[i].k
                /\ shared[i].v.mentions = trending[TrendingLimit].mentions

----------------------------------------------------------------------------
(* SpecTime: messages that speak of time arrive on two channels and        *)
(* processMessage returns what extractTimeContext finds in them.           *)

MaxTimeMessages == 2

TimeTexts == TimeContents \cup {"fix it by friday", "so what"}

TimeStep ==
    /\ MessageCount < MaxTimeMessages
    /\ \E c \in Channels, text \in TimeTexts : ProcessMessage(c, text, "alice", None)

SpecTime == Init /\ [][TimeStep]_vars

(* for every text and category, what String.prototype.match gives for each *)
(* pattern of the category, in the order of the list                      *)
timeMatches ==
    [ text \in TimeTexts |->
        [ relative |-> [j \in DOMAIN relativePatterns |->
                          StrMatch(relativePatterns[j].pattern, text, TRUE)],
          deadline |-> [j \in DOMAIN deadlinePatterns |->
                          StrMatch(deadlinePatterns[j].pattern, text, TRUE)],
          duration |-> [j \in DOMAIN durationPatterns |->
                          StrMatch(durationPatterns[j].pattern, text, TRUE)] ] ]

(* hit is what the first of the patterns that match gives, null when none  *)
(* matches; label is the unit or the type of the rule                      *)
FirstMatching(hit, rules, ms, Label(_)) ==
    IF \A j \in DOMAIN ms : ~IsSome(ms[j])
    THEN hit = None
    ELSE /\ IsSome(hit)
         /\ \E j \in DOMAIN ms :
               /\ IsSome(ms[j])
               /\ \A k \in 1..(j - 1) : ~IsSome(ms[k])
               /\ Val(hit).raw = Val(ms[j]).raw
               /\ Label(Val(hit)) = Label(rules[j])

TimeLabelUnit(r) == r.unit

TimeLabelType(r) == r.type

TimeContextFound(text, found) ==
    /\ FirstMatching(found.relative, relativePatterns, timeMatches[text].relative,
                     TimeLabelUnit)
    /\ FirstMatching(found.deadline, deadlinePatterns, timeMatches[text].deadline,
                     TimeLabelType)
    /\ FirstMatching(found.duration, durationPatterns, timeMatches[text].duration,
                     TimeLabelType)
    /\ text = "yesterday we started this"
         => found.relative = Some([value |-> 1, unit |-> "days", raw |-> "yesterday"])
    /\ text = "2 days ago, not yesterday"
         => found.relative = Some([value |-> 2, unit |-> "days", raw |-> "2 days ago"])

(* C24: in each of the categories relative, deadline and duration, and     *)
(* whatever the other categories find, extractTimeContext returns the hit  *)
(* of the first pattern of the list that matches and null when none does;  *)
(* 'yesterday we started this' gives the relative hit {1, 'days',          *)
(* 'yesterday'} and a text with 'N days ago' and 'yesterday' gives the     *)
(* 'N days ago' hit only.                                                  *)
C24_FirstPatternPerCategory ==
    lastCall.op = "processMessage"
      => TimeContextFound(lastCall.content, lastCall.result.timeContext)

(* the message with 'N days ago' and 'yesterday' has been processed *)
C24_Witness ==
    /\ lastCall.op = "processMessage"
    /\ lastCall.content = "2 days ago, not yesterday"
    /\ IsSome(timeMatches[lastCall.content].relative[2])
    /\ IsSome(timeMatches[lastCall.content].relative[4])
    /\ Val(lastCall.result.timeContext.relative).raw = "2 days ago"

----------------------------------------------------------------------------
(* SpecClear: messages that state a decision arrive on two channels with   *)
(* the name of a project, tasks are linked to their threads, a confidence  *)
(* is recorded, and clearChannelContext is called for either channel at    *)
(* any moment.                                                             *)

MaxClearMessages == 2

MaxClearRecords == 1

ClearMessageStep ==
    /\ Logged(cacheLog) < MaxClearMessages
    /\ \E c \in Channels : ProcessMessage(c, "let's use redis", "alice", Some("p1"))

ClearLinkStep ==
    /\ Len(linkLog) < MaxClearRecords
    /\ \E c \in DOMAIN threads :
          \E i \in DOMAIN threads[c].v :
             LinkTaskToOrigin("7", threads[c].k, threads[c].v[i].id,
                              MessageWindow(threads[c].v[i]))

ClearRecordStep ==
    /\ Len(recordLog) < MaxClearRecords
    /\ RecordConfidence("let's use redis", LearnResult("high"), "pending")

ClearStep == \E c \in Channels : ClearChannelContext(c)

ClearNext == ClearMessageStep \/ ClearLinkStep \/ ClearRecordStep \/ ClearStep

SpecClear == Init /\ [][ClearNext]_vars

(* the entry of a channel in a per-channel store, none without one *)
EntryOf(store, c) == IF MapHas(store, c) THEN Some(MapGet(store, c)) ELSE None

(* what the four per-channel stores hold for a channel *)
ChannelState(ths, ems, ds, ac, c) ==
    <<EntryOf(ths, c), EntryOf(ems, c), EntryOf(ds, c), EntryOf(ac, c)>>

(* clearChannelContext(ch) leaves nothing of ch in the per-channel stores  *)
(* and changes nothing else                                                *)
Cleared ==
    lastCall'.op = "clearChannelContext"
      => /\ ChannelState(threads', entityMaps', decisions', attentionCache',
                         lastCall'.channelId) = <<None, None, None, None>>
         /\ \A c \in Channels \ {lastCall'.channelId} :
               ChannelState(threads', entityMaps', decisions', attentionCache', c)
                 = ChannelState(threads, entityMaps, decisions, attentionCache, c)
         /\ UNCHANGED <<taskOrigins, projectMemory, confidenceTrail>>

(* the message after a clear is handled as the first message of a channel: *)
(* the channel gets what it gets when the per-channel stores are empty     *)
FreshAfterClear ==
    ( /\ lastCall.op = "clearChannelContext"
      /\ lastCall'.op = "processMessage"
      /\ lastCall'.channelId = lastCall.channelId )
      => LET Same(fresh) ==
                 /\ ChannelState(threads', entityMaps', decisions', attentionCache',
                                 lastCall'.channelId)
                      = ChannelState(fresh.threads, fresh.entityMaps, fresh.decisions,
                                     fresh.attentionCache, lastCall'.channelId)
                 /\ Len(MapGet(threads', lastCall'.channelId)) = 1
                 /\ Len(MapGet(threads', lastCall'.channelId)[1].messages) = 1
                 /\ \A j \in DOMAIN MapGet(entityMaps', lastCall'.channelId).focusStack :
                       \E k \in DOMAIN PushedKeys(entitiesOf[lastCall'.content]) :
                          PushedKeys(entitiesOf[lastCall'.content])[k]
                            = << MapGet(entityMaps', lastCall'.channelId).focusStack[j].type,
                                 MapGet(entityMaps', lastCall'.channelId).focusStack[j].name >>
         IN Same(processMessage(EmptyMap, EmptyMap, EmptyMap, EmptyMap, projectMemory,
                                lastCall'.channelId, lastCall'.content,
                                lastCall'.username, lastCall'.projectName, now))

(* C26: clearChannelContext(ch) removes the threads, the entity map with   *)
(* its focus stack, the decision log and the attention cache of ch and     *)
(* leaves the state of the other channels, all task origins, all project   *)
(* memories and the confidence trail as they were; the next message of ch  *)
(* starts a fresh thread with an empty focus stack.                        *)
C26_ClearRemovesOnlyChannel == [][Cleared /\ FreshAfterClear]_vars

(* a channel that had threads, entities, decisions, cached messages and a  *)
(* linked task has been cleared, the other channel has its state, and the  *)
(* task origin, the project memory and the trail are there                 *)
C26_Witness ==
    /\ lastCall.op = "clearChannelContext"
    /\ \E j \in DOMAIN cacheLog : cacheLog[j].k = lastCall.channelId
    /\ \E j \in DOMAIN taskOrigins : taskOrigins[j].v.channelId = lastCall.channelId
    /\ \E c \in Channels \ {lastCall.channelId} :
          /\ MapHas(threads, c) /\ MapHas(decisions, c)
          /\ MapHas(entityMaps, c) /\ MapHas(attentionCache, c)
    /\ Len(confidenceTrail) > 0
    /\ Len(SharedOf(projectMemory, "p1")) > 0

(* a message has been handled right after its channel was cleared of       *)
(* earlier messages                                                        *)
C26_WitnessFresh ==
    /\ lastCall.op = "processMessage"
    /\ Len(MapGet(cacheLog, lastCall.channelId)) = 2
    /\ Len(MapGet(threads, lastCall.channelId)) = 1
    /\ Len(MapGet(threads, lastCall.channelId)[1].messages) = 1

----------------------------------------------------------------------------
(* SpecOutcome: the trail starts two entries short of its cap, further     *)
(* confidences are recorded so that the oldest entries are evicted, and    *)
(* outcomes are recorded for an entry that gets evicted, for entries that  *)
(* stay, and for an id that is never given out.                            *)

MaxOutcomeRecorded == 1001

(* the first entry, the last of the initial trail, the last entry          *)
(* recorded later, and an id no entry ever has                             *)
OutcomeIds == {1, TrailRecorded, MaxOutcomeRecorded, MaxOutcomeRecorded + 1}

OutcomeRecordStep ==
    /\ Len(recordLog) < MaxOutcomeRecorded
    /\ RecordConfidence("fix login", LearnResult("high"), "pending")

OutcomeStep ==
    \E id \in OutcomeIds :
       \/ RecordOutcome(id, "accepted", None)
       \/ RecordOutcome(id, "corrected", Some("fix logout"))

OutcomeNext == OutcomeRecordStep \/ OutcomeStep

SpecOutcome == TrailInit /\ [][OutcomeNext]_vars

(* the positions of the trail that hold an entry with the id *)
EntriesWithId(trail, entryId) == {j \in DOMAIN trail : trail[j].id = entryId}

OutcomeRecorded ==
    lastCall'.op = "recordOutcome"
      => /\ lastCall'.result = (EntriesWithId(confidenceTrail, lastCall'.entryId) # {})
         /\ Len(confidenceTrail') = Len(confidenceTrail)
         /\ \A j \in DOMAIN confidenceTrail :
               IF confidenceTrail[j].id = lastCall'.entryId
               THEN confidenceTrail'[j]
                      = [ id |-> confidenceTrail[j].id,
                          timestamp |-> confidenceTrail[j].timestamp,
                          message |-> confidenceTrail[j].message,
                          result |-> confidenceTrail[j].result,
                          action |-> confidenceTrail[j].action,
                          outcome |-> Some(lastCall'.outcome),
                          correction |-> lastCall'.correction,
                          patterns |-> confidenceTrail[j].patterns ]
               ELSE confidenceTrail'[j] = confidenceTrail[j]
         /\ UNCHANGED <<threads, entityMaps, decisions, taskOrigins, projectMemory,
                        attentionCache>>

(* C27: recordOutcome(id, outcome, correction) sets the outcome and the    *)
(* correction of exactly the entry of the trail with that id, leaves the   *)
(* message, the result and the patterns of the entry and every other entry *)
(* as they were and returns true; for an id that no entry of the trail     *)
(* has, because it was never given out or because the entry was evicted    *)
(* by the cap of 1000, it returns false and changes nothing.               *)
C27_OutcomeSetOnOneEntry == [][OutcomeRecorded]_vars

(* an outcome has been recorded for an entry among entries without one,    *)
(* after the entry with id 1 was evicted                                   *)
C27_Witness ==
    /\ lastCall.op = "recordOutcome"
    /\ lastCall.result
    /\ EntriesWithId(confidenceTrail, 1) = {}
    /\ \E j \in EntriesWithId(confidenceTrail, lastCall.entryId) :
          confidenceTrail[j].outcome = Some(lastCall.outcome)
    /\ \E j \in DOMAIN confidenceTrail : confidenceTrail[j].outcome = None

(* recordOutcome has returned false for the id of an evicted entry *)
C27_WitnessEvicted ==
    /\ lastCall.op = "recordOutcome"
    /\ ~lastCall.result
    /\ lastCall.entryId = 1
    /\ \E j \in DOMAIN recordLog : recordLog[j] = 1

----------------------------------------------------------------------------
(* The services of the handler: memory.js (src/unnamed/part_002 holds the  *)
(* version with onboardingComplete), the onboarding of ai.js and the       *)
(* issue creation of github.js.                                            *)

(* isDuplicate: substring(0, 50) *)
TitleHashLen == 50

RECURSIVE DropSpaces(_)
DropSpaces(s) ==
    IF Len(s) > 0 /\ InClass("s", Ch(s, 1)) THEN DropSpaces(SubSeq(s, 2, Len(s)))
    ELSE s

(* String.prototype.replace(/\s+/g, ' ') *)
RECURSIVE CollapseSpaces(_)
CollapseSpaces(s) ==
    IF Len(s) = 0 THEN ""
    ELSE IF InClass("s", Ch(s, 1))
         THEN " " \o CollapseSpaces(DropSpaces(s))
         ELSE Ch(s, 1) \o CollapseSpaces(SubSeq(s, 2, Len(s)))

(* isDuplicate: the hash of a title *)
TitleHash(taskTitle) ==
    Substring0(CollapseSpaces(Trim(toLowerCase(taskTitle))), TitleHashLen)

(* titles extractTask gives: two that differ in case and white space, and  *)
(* two of more than 50 characters that differ behind the 50th              *)
DedupTitles ==
    { "Fix login", " fix  LOGIN ",
      "fix the login page of the customer portal before the demo on friday",
      "fix the login page of the customer portal before the launch" }

HandlerTexts == {"fix login", "so what"}

Titles == DedupTitles \cup HandlerTexts

hashOf == [title \in Titles |-> TitleHash(title)]

(* an isDuplicate that compares the titles as they are *)
isDuplicateExact(hashes, taskTitle) ==
    IF taskTitle \in hashes
    THEN [taskHashes |-> hashes, result |-> TRUE]
    ELSE [taskHashes |-> hashes \cup {taskTitle}, result |-> FALSE]

(* isDuplicate: the dedup set afterwards and the result *)
isDuplicate(hashes, taskTitle) ==
    IF hashOf[taskTitle] \in hashes
    THEN [taskHashes |-> hashes, result |-> TRUE]
    ELSE [taskHashes |-> hashes \cup {hashOf[taskTitle]}, result |-> FALSE]

(* getKnownContext: the fields the onboarding reads *)
getKnownContext(kc, channelId) ==
    MapGetOr(kc, channelId, [projectName |-> None, teamMembers |-> <<>>])

(* updateKnownContext: { ...current, ...updates } *)
updateKnownContext(kc, channelId, updates) ==
    LET Merged(current) ==
            [f \in DOMAIN current |->
               IF f \in DOMAIN updates THEN updates[f] ELSE current[f]]
    IN MapSet(kc, channelId, Merged(getKnownContext(kc, channelId)))

isOnboarded(oc, channelId) == MapGetOr(oc, channelId, FALSE)

setOnboarded(oc, channelId, status) == MapSet(oc, channelId, status)

(* runOnboarding: missing / stillMissing *)
Missing(knownCtx, number) ==
    (IF knownCtx.projectName = None THEN <<"projectName">> ELSE <<>>)
      \o (IF Len(knownCtx.teamMembers) = 0 THEN <<"teamMembers">> ELSE <<>>)
      \o (IF number = None THEN <<"projectNumber">> ELSE <<>>)

(* what the language model extracts from a message: nothing, the answer to *)
(* the question that was asked, or all three answers at once               *)
OnboardingAnswers == {"none", "asked", "all"}

ExtractedFields(answer, questionType) ==
    CASE answer = "asked" -> {questionType}
      [] answer = "all" -> {"projectName", "teamMembers", "projectNumber"}
      [] OTHER -> {}

(* the project number the answer gives *)
ProjectNumberGiven == Some(3)

(* extractOnboardingAnswer: contextUpdates *)
ContextUpdates(fields) ==
    [f \in fields \cap {"projectName", "teamMembers"} |->
       IF f = "projectName" THEN Some("p1") ELSE <<"bob">>]

----------------------------------------------------------------------------
(* SpecHandler: the messageCreate handler of src/unnamed/part_001.  The    *)
(* handler is an async function: emit calls it when the event is           *)
(* dispatched and it runs until its first await; every later piece runs    *)
(* when the awaited promise settles, in any order among the handlers that  *)
(* are suspended.                                                          *)

MaxHandlers == 2

(* a handler that awaits the onboarding before it passes the message on *)
handlerAwaitingFirst ==
    << [call |-> "runOnboarding", suspends |-> TRUE],
       [call |-> "processMessage", suspends |-> FALSE],
       [call |-> "onboarding", suspends |-> FALSE],
       [call |-> "answerContextQuery", suspends |-> FALSE],
       [call |-> "extractTask", suspends |-> TRUE],
       [call |-> "recordConfidence", suspends |-> FALSE],
       [call |-> "isDuplicate", suspends |-> FALSE],
       [call |-> "createIssue", suspends |-> TRUE],
       [call |-> "linkTaskToOrigin", suspends |-> FALSE] >>

(* the calls of the handler in program order, and whether the handler is   *)
(* suspended in the call: the call runs up to its first await, and the     *)
(* next entry runs when the handler is resumed.  'onboarding' is what      *)
(* follows the await of runOnboarding: the rest of runOnboarding and the   *)
(* replies of the handler.  The awaits between answerContextQuery and      *)
(* extractTask (detectTaskUpdate, the issue updates, extractUserMappings,  *)
(* checkContextNeeds) stand as one, and so do logActivity and createIssue: *)
(* nothing between them touches the engine or the services.                *)
messageCreateHandler ==
    << [call |-> "processMessage", suspends |-> FALSE],
       [call |-> "runOnboarding", suspends |-> TRUE],
       [call |-> "onboarding", suspends |-> FALSE],
       [call |-> "answerContextQuery", suspends |-> FALSE],
       [call |-> "extractTask", suspends |-> TRUE],
       [call |-> "recordConfidence", suspends |-> FALSE],
       [call |-> "isDuplicate", suspends |-> FALSE],
       [call |-> "createIssue", suspends |-> TRUE],
       [call |-> "linkTaskToOrigin", suspends |-> FALSE] >>

(* the position of a handler that has returned *)
Returned == Len(messageCreateHandler) + 1

(* the state of the engine and of the services as a record, without the    *)
(* clock                                                                   *)
EngineState ==
    [ threads |-> threads, entityMaps |-> entityMaps, decisions |-> decisions,
      taskOrigins |-> taskOrigins, projectMemory |-> projectMemory,
      confidenceTrail |-> confidenceTrail, attentionCache |-> attentionCache,
      entrySeq |-> entrySeq, pushLog |-> pushLog, cacheLog |-> cacheLog,
      linkLog |-> linkLog, recordLog |-> recordLog,
      taskHashes |-> taskHashes, knownContext |-> knownContext,
      onboardingComplete |-> onboardingComplete, lastQuestion |-> lastQuestion,
      projectNumber |-> projectNumber, issues |-> issues ]

(* `confidenceEntry.action = ...` on the entry the handler holds *)
SetEntryAction(trail, entryId, action) ==
    [j \in DOMAIN trail |->
       IF trail[j].id = entryId THEN [trail[j] EXCEPT !.action = action] ELSE trail[j]]

(* part_001 58-68: processMessage(channelId, content, username,            *)
(* getKnownContext(channelId).projectName)                                 *)
HandlerProcess(S, h, t) ==
    LET Passed(r) ==
            [ state |->
                [S EXCEPT !.threads = r.threads, !.entityMaps = r.entityMaps,
                          !.decisions = r.decisions,
                          !.attentionCache = r.attentionCache,
                          !.projectMemory = r.projectMemory,
                          !.pushLog = LogAppend(@, h.channelId,
                                                PushedKeys(entitiesOf[h.content])),
                          !.cacheLog =
                              LogAppend(@, h.channelId,
                                        <<ScoredMessage([ content |-> h.content,
                                                          username |-> h.username,
                                                          timestamp |-> t ])>>)],
              handler |-> [h EXCEPT !.pc = @ + 1] ]
    IN Passed(processMessage(S.threads, S.entityMaps, S.decisions, S.attentionCache,
                             S.projectMemory, h.channelId, h.content, h.username,
                             getKnownContext(S.knownContext, h.channelId).projectName,
                             t))

(* ai.js 246-312, up to the await of extractOnboardingAnswer: the handler  *)
(* keeps what runOnboarding returns, or the question it extracts the       *)
(* answer to, the missing answers and the config extractOnboardingAnswer   *)
(* has loaded                                                              *)
HandlerOnboarding(S, h, t) ==
    LET Started(missing) ==
            IF Len(missing) = 0
            THEN IF isOnboarded(S.onboardingComplete, h.channelId)
                 THEN [ state |-> S,
                        handler |-> [h EXCEPT !.pc = @ + 1, !.onboarding = "complete"] ]
                 ELSE [ state |->
                          [S EXCEPT !.onboardingComplete =
                                        setOnboarded(@, h.channelId, TRUE)],
                        handler |-> [h EXCEPT !.pc = @ + 1, !.onboarding = "ready"] ]
            ELSE IF MapHas(S.lastQuestion, h.channelId)
                 THEN [ state |-> S,
                        handler |->
                          [h EXCEPT !.pc = @ + 1, !.onboarding = "extracting",
                                    !.question = MapGet(S.lastQuestion, h.channelId),
                                    !.missing = missing,
                                    !.config = S.projectNumber] ]
                 ELSE [ state |->
                          [S EXCEPT !.lastQuestion =
                                        MapSet(@, h.channelId, missing[1])],
                        handler |-> [h EXCEPT !.pc = @ + 1, !.onboarding = "question"] ]
    IN Started(Missing(getKnownContext(S.knownContext, h.channelId), S.projectNumber))

(* ai.js 381-418 and 274-312, part_001 75-90: the extracted answers are    *)
(* applied, the config that was loaded before the await is saved when the  *)
(* team or the project number was extracted, runOnboarding returns, and    *)
(* the handler replies and returns unless the onboarding is complete and   *)
(* has no reply                                                            *)
HandlerOnboarded(S, h, t) ==
    LET Replied(state, result) ==
            [ state |-> state,
              handler |-> [h EXCEPT !.onboarding = result,
                                    !.pc = IF result = "complete" THEN @ + 1
                                           ELSE Returned] ]
        Applied(fields) ==
            [S EXCEPT
               !.knownContext =
                   IF fields \cap {"projectName", "teamMembers"} # {}
                   THEN updateKnownContext(@, h.channelId, ContextUpdates(fields))
                   ELSE @,
               !.projectNumber =
                   IF "projectNumber" \in fields THEN ProjectNumberGiven
                   ELSE IF "teamMembers" \in fields THEN h.config
                   ELSE @]
        Decided(state, stillMissing) ==
            IF Len(stillMissing) = 0
            THEN Replied([state EXCEPT
                            !.lastQuestion = MapDelete(@, h.channelId),
                            !.onboardingComplete = setOnboarded(@, h.channelId, TRUE)],
                         "ready")
            ELSE Replied([state EXCEPT
                            !.lastQuestion = MapSet(@, h.channelId, stillMissing[1])],
                         "question")
        Extracted(state) ==
            Decided(state, Missing(getKnownContext(state.knownContext, h.channelId),
                                   state.projectNumber))
    IN IF h.onboarding # "extracting" THEN Replied(S, h.onboarding)
       ELSE IF ExtractedFields(h.answer, h.question) # {}
       THEN Extracted(Applied(ExtractedFields(h.answer, h.question)))
       ELSE Replied([S EXCEPT !.lastQuestion = MapSet(@, h.channelId, h.missing[1])],
                    "question")

(* part_001 171-203: a task that is actionable is recorded as pending; the *)
(* handler asks back and returns when the effective confidence is low or   *)
(* medium                                                                  *)
HandlerRecord(S, h, t) ==
    LET Asked(effective, trail) ==
            [ state |->
                [S EXCEPT !.confidenceTrail =
                              IF effective = "low"
                              THEN SetEntryAction(trail, S.entrySeq + 1,
                                                  "asked_clarification")
                              ELSE IF effective = "medium"
                              THEN SetEntryAction(trail, S.entrySeq + 1,
                                                  "asked_confirmation")
                              ELSE trail,
                          !.entrySeq = @ + 1,
                          !.recordLog = Append(@, S.entrySeq + 1)],
              handler |-> [h EXCEPT !.pc = IF effective = "high" THEN @ + 1
                                           ELSE Returned,
                                    !.entry = S.entrySeq + 1] ]
        Recorded(adjustment) ==
            Asked(IF adjustment.adjustment # 0 THEN adjustment.adjustedConfidence
                  ELSE h.task,
                  recordConfidence(S.confidenceTrail,
                                   NewConfidenceEntry(S.entrySeq + 1, h.content,
                                                      LearnResult(h.task), "pending",
                                                      t)))
    IN IF h.task = "none"
       THEN [state |-> S, handler |-> [h EXCEPT !.pc = Returned]]
       ELSE Recorded(getLearnedConfidenceAdjustment(S.confidenceTrail, h.content,
                                                    h.task))

(* part_001 241: `effectiveConfidence === 'high' && !isDuplicate(title)` *)
HandlerDuplicate(S, h, t) ==
    LET Checked(r) ==
            [ state |-> [S EXCEPT !.taskHashes = r.taskHashes],
              handler |-> [h EXCEPT !.pc = IF r.result THEN Returned ELSE @ + 1] ]
    IN Checked(isDuplicate(S.taskHashes, h.title))

(* part_001 242-244: createIssue(task) is called *)
HandlerCreate(S, h, t) ==
    [ state |-> [S EXCEPT !.issues = Append(@, [title |-> h.title, created |-> FALSE])],
      handler |-> [h EXCEPT !.pc = @ + 1, !.issue = Len(S.issues) + 1] ]

(* part_001 244-263: createIssue has returned the issue; the entry becomes *)
(* 'created' and 'accepted', and the issue is linked to the thread that is *)
(* active now, with its last five messages                                 *)
HandlerLink(S, h, taskId, t) ==
    LET Accepted(trail) == SetEntryAction(trail, h.entry, "created")
        Created(state) == [state EXCEPT !.issues[h.issue].created = TRUE]
        Linked(thread) ==
            IF IsSome(thread)
            THEN [S EXCEPT
                    !.confidenceTrail =
                        recordOutcome(Accepted(@), h.entry, "accepted", None).trail,
                    !.taskOrigins =
                        StoreOrigin(@, taskId,
                                    NewTaskOrigin(taskId, h.channelId, Val(thread).id,
                                                  MessageWindow(Val(thread)), t)),
                    !.threads = LinkThreads(@, taskId, h.channelId),
                    !.linkLog = Append(@, [ taskId |-> taskId,
                                            channelId |-> h.channelId,
                                            threadId |-> Val(thread).id,
                                            messages |-> MessageWindow(Val(thread)) ])]
            ELSE [S EXCEPT
                    !.confidenceTrail =
                        recordOutcome(Accepted(@), h.entry, "accepted", None).trail]
    IN [ state |-> Created(Linked(getActiveThread(S.threads, h.channelId))),
         handler |-> [h EXCEPT !.pc = @ + 1] ]

(* one call of the handler.  answerContextQuery only reads here: the       *)
(* entity map of the channel is there since processMessage                 *)
HandlerCall(S, h, call, t) ==
    CASE call = "processMessage" -> HandlerProcess(S, h, t)
      [] call = "runOnboarding" -> HandlerOnboarding(S, h, t)
      [] call = "onboarding" -> HandlerOnboarded(S, h, t)
      [] call = "recordConfidence" -> HandlerRecord(S, h, t)
      [] call = "isDuplicate" -> HandlerDuplicate(S, h, t)
      [] call = "createIssue" -> HandlerCreate(S, h, t)
      [] call = "linkTaskToOrigin" -> HandlerLink(S, h, "7", t)
      [] OTHER -> [state |-> S, handler |-> [h EXCEPT !.pc = @ + 1]]

(* the handler runs from its position up to its next await, or to its end *)
RECURSIVE RunHandler(_, _, _, _)
RunHandler(program, S, h, t) ==
    IF h.pc > Len(program) THEN [state |-> S, handler |-> h]
    ELSE IF program[h.pc].suspends
         THEN HandlerCall(S, h, program[h.pc].call, t)
         ELSE LET Next1(r) == RunHandler(program, r.state, r.handler, t)
              IN Next1(HandlerCall(S, h, program[h.pc].call, t))

(* the engine and the services take the state the handler leaves *)
Installed(S) ==
    /\ threads' = S.threads
    /\ entityMaps' = S.entityMaps
    /\ decisions' = S.decisions
    /\ taskOrigins' = S.taskOrigins
    /\ projectMemory' = S.projectMemory
    /\ confidenceTrail' = S.confidenceTrail
    /\ attentionCache' = S.attentionCache
    /\ entrySeq' = S.entrySeq
    /\ pushLog' = S.pushLog
    /\ cacheLog' = S.cacheLog
    /\ linkLog' = S.linkLog
    /\ recordLog' = S.recordLog
    /\ taskHashes' = S.taskHashes
    /\ knownContext' = S.knownContext
    /\ onboardingComplete' = S.onboardingComplete
    /\ lastQuestion' = S.lastQuestion
    /\ projectNumber' = S.projectNumber
    /\ issues' = S.issues
    /\ UNCHANGED now

(* the handler of a message, before it runs: what extractTask will give    *)
(* for the message (confidence and title) and what the language model will *)
(* extract from it as an onboarding answer                                 *)
NewHandler(channelId, content, username, bot, task, title, answer) ==
    [ channelId |-> channelId, content |-> content, username |-> username,
      bot |-> bot, task |-> task, title |-> title, answer |-> answer,
      pc |-> IF bot THEN Returned ELSE 1, entry |-> 0, issue |-> 0,
      onboarding |-> "none", question |-> "", missing |-> <<>>, config |-> None ]

(* client.emit('messageCreate', message): the handler starts; a message of *)
(* a bot makes it return at once (part_001 56)                             *)
Dispatch(channelId, content, username, bot, task, title, answer) ==
    LET Started(r) ==
            /\ Installed(r.state)
            /\ handlers' = Append(handlers, r.handler)
            /\ lastCall' = [ op |-> "messageCreate", channelId |-> channelId,
                             content |-> content, bot |-> bot ]
    IN Started(RunHandler(messageCreateHandler, EngineState,
                          NewHandler(channelId, content, username, bot, task,
                                     title, answer),
                          now))

(* the promise a suspended handler awaits is fulfilled *)
Resume(i) ==
    LET Continued(r) ==
            /\ Installed(r.state)
            /\ handlers' = [handlers EXCEPT ![i] = r.handler]
            /\ lastCall' = [op |-> "resume", handler |-> i]
    IN /\ handlers[i].pc < Returned
       /\ Continued(RunHandler(messageCreateHandler, EngineState, handlers[i], now))

(* the handler is suspended in a call of the language model or of GitHub,  *)
(* which may throw, or in the awaits that end it for a context query, a    *)
(* task update or a message without a task                                 *)
MayReturn(h) ==
    /\ h.pc < Returned
    /\ messageCreateHandler[h.pc - 1].call = "runOnboarding"
         => h.onboarding = "extracting"

(* a suspended handler returns: the message is a context query or a task   *)
(* update, or the awaited call throws                                      *)
Return(i) ==
    /\ MayReturn(handlers[i])
    /\ handlers' = [handlers EXCEPT ![i].pc = Returned]
    /\ lastCall' = [op |-> "return", handler |-> i]
    /\ UNCHANGED <<services, stores, now, entrySeq, pushLog, cacheLog, linkLog, recordLog>>

(* the message that answers the onboarding questions *)
OnboardingText == "ShopApp with @bob, project 3"

(* the events that onboard both channels: a first message, which is asked  *)
(* the first question, and a message that answers all the questions        *)
OnboardingEvents ==
    << [channelId |-> "c1", answer |-> "none"], [channelId |-> "c1", answer |-> "all"],
       [channelId |-> "c2", answer |-> "none"], [channelId |-> "c2", answer |-> "all"] >>

(* the engine and the services when nothing has happened *)
FreshState ==
    [ threads |-> EmptyMap, entityMaps |-> EmptyMap, decisions |-> EmptyMap,
      taskOrigins |-> EmptyMap, projectMemory |-> EmptyMap,
      confidenceTrail |-> <<>>, attentionCache |-> EmptyMap,
      entrySeq |-> 0, pushLog |-> EmptyMap, cacheLog |-> EmptyMap,
      linkLog |-> <<>>, recordLog |-> <<>>,
      taskHashes |-> {}, knownContext |-> EmptyMap,
      onboardingComplete |-> EmptyMap, lastQuestion |-> EmptyMap,
      projectNumber |-> None, issues |-> <<>> ]

(* the events are handled one after the other, each handler to its end *)
RECURSIVE Handled(_, _, _, _)
Handled(S, hs, events, t) ==
    IF Len(events) = 0 THEN [state |-> S, handlers |-> hs]
    ELSE LET Settled(r) == Handled(r.state, Append(hs, r.handler), Tail(events), t)
             Resumed(r) == Settled(RunHandler(messageCreateHandler, r.state, r.handler, t))
         IN Resumed(RunHandler(messageCreateHandler, S,
                               NewHandler(Head(events).channelId, OnboardingText,
                                          "alice", FALSE, "none", OnboardingText,
                                          Head(events).answer),
                               t))

(* the bot after the onboarding of both channels *)
HandlerInit ==
    LET Start(r) ==
            /\ threads = r.state.threads
            /\ entityMaps = r.state.entityMaps
            /\ decisions = r.state.decisions
            /\ taskOrigins = r.state.taskOrigins
            /\ projectMemory = r.state.projectMemory
            /\ confidenceTrail = r.state.confidenceTrail
            /\ attentionCache = r.state.attentionCache
            /\ entrySeq = r.state.entrySeq
            /\ pushLog = r.state.pushLog
            /\ cacheLog = r.state.cacheLog
            /\ linkLog = r.state.linkLog
            /\ recordLog = r.state.recordLog
            /\ taskHashes = r.state.taskHashes
            /\ knownContext = r.state.knownContext
            /\ onboardingComplete = r.state.onboardingComplete
            /\ lastQuestion = r.state.lastQuestion
            /\ projectNumber = r.state.projectNumber
            /\ issues = r.state.issues
            /\ handlers = r.handlers
            /\ now = StartMs
            /\ lastCall = [op |-> "none"]
    IN Start(Handled(FreshState, <<>>, OnboardingEvents, StartMs))

(* the confidence extractTask gives a task; a message without a task ends *)
(* the handler as ReturnStep does                                          *)
HandlerTasks == {"low", "high"}

(* the handlers dispatched after the onboarding *)
HandlersAfterOnboarding == Len(handlers) - Len(OnboardingEvents)

DispatchStep ==
    /\ HandlersAfterOnboarding < MaxHandlers
    /\ \E c \in Channels, text \in HandlerTexts :
          \/ \E task \in HandlerTasks :
                Dispatch(c, text, "alice", FALSE, task, text, "none")
          \/ Dispatch(c, text, "bot", TRUE, "none", text, "none")

ResumeStep == \E i \in DOMAIN handlers : Resume(i)

ReturnStep == \E i \in DOMAIN handlers : Return(i)

HandlerNext == DispatchStep \/ ResumeStep \/ ReturnStep

SpecHandler == HandlerInit /\ [][HandlerNext]_vars

(* the contents of the messages dispatched for a channel by users, in the  *)
(* order of their events                                                   *)
DispatchedTo(c) ==
    LET mine == SelectSeq(handlers, LAMBDA h : h.channelId = c /\ ~h.bot)
    IN [j \in DOMAIN mine |-> mine[j].content]

(* the contents of the messages appended for a channel, in the order in    *)
(* which processMessage took them                                          *)
AppendedTo(c) ==
    LET mine == MapGetOr(cacheLog, c, <<>>)
    IN [j \in DOMAIN mine |-> mine[j].content]

(* a is b without some of its elements *)
RECURSIVE IsSubsequence(_, _)
IsSubsequence(a, b) ==
    IF Len(a) = 0 THEN TRUE
    ELSE IF Len(b) = 0 THEN FALSE
    ELSE IF Head(a) = Head(b) THEN IsSubsequence(Tail(a), Tail(b))
    ELSE IsSubsequence(a, Tail(b))

(* C29: processMessage runs to completion before the handler is suspended *)
(* for the first time, so that however the handlers interleave the         *)
(* messages of a channel are appended in the order in which their events   *)
(* were dispatched: the messages taken for a channel are the messages      *)
(* dispatched for it, in that order, every one of them is in a thread of   *)
(* the channel, and every thread holds its messages in that order.         *)
C29_AppendedInDispatchOrder ==
    \A c \in Channels :
       /\ AppendedTo(c) = DispatchedTo(c)
       /\ SumSeq([i \in DOMAIN MapGetOr(threads, c, <<>>) |->
                    Len(MapGet(threads, c)[i].messages)]) = Len(DispatchedTo(c))
       /\ \A i \in DOMAIN MapGetOr(threads, c, <<>>) :
             IsSubsequence([j \in DOMAIN MapGet(threads, c)[i].messages |->
                              MapGet(threads, c)[i].messages[j].content],
                           DispatchedTo(c))

(* two messages of a channel were dispatched, the handler of the second    *)
(* has gone on to link its task while the handler of the first is still    *)
(* suspended at its first await                                            *)
C29_Witness ==
    LET first == handlers[Len(OnboardingEvents) + 1]
        second == handlers[Len(OnboardingEvents) + 2]
    IN /\ HandlersAfterOnboarding = 2
       /\ first.channelId = second.channelId
       /\ first.content # second.content
       /\ ~first.bot /\ ~second.bot
       /\ first.pc = 3
       /\ second.pc = Returned
       /\ Len(linkLog) = 1
       /\ AppendedTo(first.channelId)
            = <<OnboardingText, OnboardingText, first.content, second.content>>

(* the handler is about to call linkTaskToOrigin: its issue was created *)
AboutToLink(h) ==
    /\ h.pc < Returned
    /\ messageCreateHandler[h.pc].call = "linkTaskToOrigin"

(* C35: when the handler creates an issue for a high-confidence message,   *)
(* the message window it stores through linkTaskToOrigin contains the      *)
(* message that triggered the creation, for every interleaving with other  *)
(* handlers of the same channel that run during the awaits of the handler. *)
C35_WindowHoldsTrigger ==
    [][\A i \in DOMAIN handlers :
          (AboutToLink(handlers[i]) /\ Len(linkLog') = Len(linkLog) + 1
             /\ handlers'[i].pc = Returned)
          => LET link == linkLog'[Len(linkLog')]
             IN /\ link.channelId = handlers[i].channelId
                /\ \E j \in DOMAIN link.messages :
                      link.messages[j].content = handlers[i].content]_vars

----------------------------------------------------------------------------
(* SpecDedup: deduplication of the issues.  After the onboarding, messages *)
(* of one channel arrive for which extractTask gives a task of high        *)
(* confidence; the titles differ in case, white space and length.          *)

MaxDedupHandlers == 2

DedupDispatchStep ==
    /\ HandlersAfterOnboarding < MaxDedupHandlers
    /\ \E title \in DedupTitles :
          Dispatch("c1", "fix login", "alice", FALSE, "high", title, "none")

DedupNext == DedupDispatchStep \/ ResumeStep \/ ReturnStep

SpecDedup == HandlerInit /\ [][DedupNext]_vars

(* the hashes of the titles createIssue was called with, in order *)
CalledHashes == [j \in DOMAIN issues |-> hashOf[issues[j].title]]

(* C36: for every interleaving of the handlers, createIssue is called at   *)
(* most once for all the tasks whose titles normalise (lower case, trim,   *)
(* collapsed white space, first 50 characters) to the same string:         *)
(* isDuplicate returns false for the first such title, whose handler calls *)
(* createIssue, and true for every later one.                              *)
C36_OneIssuePerHash ==
    /\ \A i, j \in DOMAIN issues : i # j => CalledHashes[i] # CalledHashes[j]
    /\ taskHashes = { CalledHashes[j] : j \in DOMAIN issues }
    /\ \A k \in DOMAIN handlers :
          handlers[k].issue > 0 => issues[handlers[k].issue].title = handlers[k].title

(* two handlers run at once for titles that differ in case and white       *)
(* space: the first is suspended in createIssue, the second has found its  *)
(* title a duplicate and returned                                          *)
C36_Witness ==
    LET first == handlers[Len(OnboardingEvents) + 1]
        second == handlers[Len(OnboardingEvents) + 2]
    IN /\ HandlersAfterOnboarding = 2
       /\ first.title = "Fix login" /\ second.title = " fix  LOGIN "
       /\ first.issue = 1 /\ ~issues[1].created /\ first.pc < Returned
       /\ second.entry > 0 /\ second.issue = 0 /\ second.pc = Returned
       /\ Len(issues) = 1
       /\ taskHashes = {"fix login"}

(* C37: every title recorded in the dedup set belongs to an issue that was *)
(* created or is being created: when createIssue fails for a task, its     *)
(* title is not left marked as a duplicate.                                *)
C37_HashesOfCreatedIssues ==
    \A hash \in taskHashes :
       \E j \in DOMAIN issues :
          /\ CalledHashes[j] = hash
          /\ \/ issues[j].created
             \/ \E k \in DOMAIN handlers :
                   handlers[k].issue = j /\ handlers[k].pc < Returned

----------------------------------------------------------------------------
(* SpecOnboard: the onboarding of a channel.  Messages arrive on a channel *)
(* nothing is known about; the language model extracts from each of them   *)
(* nothing, the answer that was asked for or all the answers, and          *)
(* extractTask gives every message a task of high confidence.              *)

MaxOnboardHandlers == 3

OnboardDispatchStep ==
    /\ Len(handlers) < MaxOnboardHandlers
    /\ \E answer \in OnboardingAnswers :
          Dispatch("c1", OnboardingText, "alice", FALSE, "high", "Fix login", answer)

OnboardNext == OnboardDispatchStep \/ ResumeStep \/ ReturnStep

SpecOnboard == Init /\ [][OnboardNext]_vars

(* the handler has gone past the onboarding: task-update detection, task   *)
(* extraction and issue creation run for its message                       *)
PastOnboarding(h) ==
    \E p \in 1..(h.pc - 1) : messageCreateHandler[p].call = "answerContextQuery"

(* the handlers of a channel whose runOnboarding returned the ready reply *)
ReadyHandlers(c) ==
    { k \in DOMAIN handlers :
        handlers[k].channelId = c /\ handlers[k].onboarding = "ready" }

TasksOnlyWhenComplete ==
    \A k \in DOMAIN handlers :
       (handlers[k].pc < Returned /\ PastOnboarding(handlers[k])) \/ handlers[k].entry > 0
          => handlers[k].onboarding = "complete"

NoIssueBeforeReady ==
    \A k \in DOMAIN handlers :
       handlers[k].issue > 0
          => \E r \in ReadyHandlers(handlers[k].channelId) : r < k

(* C38: for every channel, the handler runs task-update detection, task    *)
(* extraction and issue creation for a message only when runOnboarding     *)
(* returned complete with no reply; the ready reply is returned for one    *)
(* message of the channel only, and no issue is created from a message     *)
(* handled before it.                                                      *)
C38_OneReadyReply ==
    /\ TasksOnlyWhenComplete
    /\ NoIssueBeforeReady
    /\ \A c \in Channels : Cardinality(ReadyHandlers(c)) <= 1

====
